---- MODULE Spec2Model ----
(***************************************************************************)
(* Feedback-Dashboard: the classification-and-indexing pipeline.           *)
(*                                                                         *)
(*   src/src/embeddings.js   generateEmbedding, indexFeedback,             *)
(*                           indexAllFeedback, FeedbackWorkflow.run        *)
(*   src/unnamed/part_001    the worker's fetch handler: POST /api/feedback*)
(*                           and POST /api/analyze (lines 516-706)         *)
(*   src/schema.sql          the feedback table                            *)
(*                                                                         *)
(* Texts are sequences of one-character strings, so that toLowerCase and   *)
(* String.prototype.includes are computed as the code computes them.       *)
(* Scores are integers in thousandths: 1000 is 1.0, 550 is 0.55.           *)
(***************************************************************************)
EXTENDS Integers, Sequences, FiniteSets, TLC

\* ------------------------------------------------------------------------
\* Bounds of the model
\* ------------------------------------------------------------------------

\* Rows the feedback table may hold in the orchestrator specifications.
MaxItems == 2

\* Rows beyond one full chunk that the index-all specification starts with.
MaxExtraRows == 1

\* The vectors in the index of the search specification, and the most a
\* query returns.
MaxMatches == 3

\* ------------------------------------------------------------------------
\* Program constants
\* ------------------------------------------------------------------------

\* LIMIT of the workflow's fetch query.
FetchLimit == 10

\* batchSize of indexAllFeedback.
batchSize == 10

\* Dimensions of a bge-base-en-v1.5 embedding.
EmbeddingDim == 768

\* The workflow instances that may be alive at once.
Runs == {1, 2}

\* ------------------------------------------------------------------------
\* JavaScript and SQL values
\* ------------------------------------------------------------------------

Undefined == [t |-> "undefined", n |-> 0, s |-> ""]
NaN       == [t |-> "nan",       n |-> 0, s |-> ""]
Null      == [t |-> "null",      n |-> 0, s |-> ""]
Num(x)    == [t |-> "number",    n |-> x, s |-> ""]
Str(x)    == [t |-> "string",    n |-> 0, s |-> x]

\* JavaScript truthiness: undefined, null, NaN, 0 and "" are falsy.
Truthy(v) ==
    CASE v.t = "undefined" -> FALSE
      [] v.t = "null"      -> FALSE
      [] v.t = "nan"       -> FALSE
      [] v.t = "number"    -> v.n # 0
      [] v.t = "string"    -> v.s # ""

\* a || b
JsOr(a, b) == IF Truthy(a) THEN a ELSE b

\* The numeric strings the inference replies of the model use, in thousandths.
NumericStrings == [s \in {"0.8", "-3"} |-> IF s = "0.8" THEN 800 ELSE -3000]

\* ToNumber, the coercion Math.min and Math.max apply to their arguments.
ToNumber(v) ==
    CASE v.t = "number"    -> v
      [] v.t = "nan"       -> NaN
      [] v.t = "undefined" -> NaN
      [] v.t = "null"      -> Num(0)
      [] v.t = "string"    ->
            IF v.s = "" THEN Num(0)
            ELSE IF v.s \in DOMAIN NumericStrings THEN Num(NumericStrings[v.s])
            ELSE NaN

\* Math.min(a, b) and Math.max(a, b): NaN when either argument is NaN.
MathMin(a, b) ==
    LET x == ToNumber(a)
        y == ToNumber(b)
    IN  IF x.t = "nan" \/ y.t = "nan" THEN NaN
        ELSE IF x.n <= y.n THEN x ELSE y

MathMax(a, b) ==
    LET x == ToNumber(a)
        y == ToNumber(b)
    IN  IF x.t = "nan" \/ y.t = "nan" THEN NaN
        ELSE IF x.n >= y.n THEN x ELSE y

\* ------------------------------------------------------------------------
\* Strings as character sequences
\* ------------------------------------------------------------------------

UpperToLower ==
    [c \in {"A","B","C","D","E","F","G","H","I","J","K","L","M",
            "N","O","P","Q","R","S","T","U","V","W","X","Y","Z"} |->
        CASE c = "A" -> "a" [] c = "B" -> "b" [] c = "C" -> "c" [] c = "D" -> "d"
          [] c = "E" -> "e" [] c = "F" -> "f" [] c = "G" -> "g" [] c = "H" -> "h"
          [] c = "I" -> "i" [] c = "J" -> "j" [] c = "K" -> "k" [] c = "L" -> "l"
          [] c = "M" -> "m" [] c = "N" -> "n" [] c = "O" -> "o" [] c = "P" -> "p"
          [] c = "Q" -> "q" [] c = "R" -> "r" [] c = "S" -> "s" [] c = "T" -> "t"
          [] c = "U" -> "u" [] c = "V" -> "v" [] c = "W" -> "w" [] c = "X" -> "x"
          [] c = "Y" -> "y" [] c = "Z" -> "z"]

\* String.prototype.toLowerCase
ToLowerCase(str) ==
    [i \in DOMAIN str |->
        IF str[i] \in DOMAIN UpperToLower THEN UpperToLower[str[i]] ELSE str[i]]

\* String.prototype.includes: w occurs in str as a contiguous substring.
Includes(str, w) ==
    \E i \in 0..(Len(str) - Len(w)) : \A j \in 1..Len(w) : str[i + j] = w[j]

\* Array.prototype.slice(0, n)
SliceTo(arr, n) == SubSeq(arr, 1, IF Len(arr) < n THEN Len(arr) ELSE n)

\* Array.prototype.slice(i, i + n), i counted from 0
SliceFrom(arr, i, n) ==
    SubSeq(arr, i + 1, IF Len(arr) < i + n THEN Len(arr) ELSE i + n)

\* ------------------------------------------------------------------------
\* Feedback texts
\* ------------------------------------------------------------------------

TextBroken ==
    <<"T","h","i","s"," ","f","e","a","t","u","r","e"," ","i","s"," ","a","b","s","o","l","u","t","e","l","y"," ","b","r","o","k","e","n"," ","a","n","d"," ","t","h","e"," ","a","p","p"," ","c","r","a","s","h","e","s"," ","c","o","n","s","t","a","n","t","l","y">>

TextPraise ==
    <<"L","o","v","e"," ","i","t",","," ","g","r","e","a","t"," ","s","u","p","p","o","r","t">>

TextPlain ==
    <<"o","k">>

TextMany ==
    <<"S","l","o","w"," ","U","I",","," ","p","r","i","c","e"," ","b","u","g">>

\* Contents a POST /api/feedback may carry.
Texts == {TextBroken, TextPraise, TextPlain, TextMany}

\* Contents of the rows the orchestrator specifications create.
RunTexts == {TextBroken}

\* ------------------------------------------------------------------------
\* State
\* ------------------------------------------------------------------------

VARIABLES
    feedback,          \* the feedback table: row id |-> row, ids 1..Len(feedback)
    vectorize,         \* the vector index: vector id |-> [content, dim]
    kv,                \* the analytics cache key: "absent" or "cached"
    pc,                \* per run: the step the workflow instance is at
    feedbackItems,     \* per run: the rows fetched, <<[id, content]>>
    analysisResults,   \* per run: the analyze steps' results
    embedNext,         \* per run: index into analysisResults of the embed loop
    embeddingResults,  \* per run: the embed steps' results
    ret,               \* per run: the value run() returned
    aiCalls,           \* per run: inference calls issued (history)
    committed,         \* per run: ids whose UPDATE committed (history)
    embedTried,        \* per run: ids whose embed step ran (history)
    inserted,          \* per run: ids whose VECTORIZE.insert committed (history)
    indexAll,          \* the indexAllFeedback call: its locals and its chunk log
    fullyProcessed,    \* a run left no row unprocessed and none was created since
                       \* (history)
    fetchedAfterFull,  \* per run: fullyProcessed held at its fetch (history)
    events,            \* per run: the calls it made, in order (history)
    lastWrite,         \* row id |-> the UPDATE that committed last (history)
    lastIndexed,       \* vector id |-> what the last indexing call that
                       \* reported success built for it (history)
    analyzeRet,        \* the response of the last POST /api/analyze
    search,            \* the last searchSimilar call: backend matches, result
    classify,          \* the last keyword sentiment computation: input, result
    analytics          \* GET /api/analytics: the request in flight between its
                       \* queries and its KV.put, and the value under the key

vars == <<feedback, vectorize, kv, pc, feedbackItems, analysisResults, embedNext,
          embeddingResults, ret, aiCalls, committed, embedTried, inserted, indexAll,
          fullyProcessed, fetchedAfterFull, events, lastWrite, lastIndexed,
          analyzeRet, search, classify, analytics>>

dbVars  == <<feedback, vectorize, kv>>
runVars == <<pc, feedbackItems, analysisResults, embedNext, embeddingResults, ret,
             aiCalls, committed, embedTried, inserted, fetchedAfterFull>>
histVars == <<events, lastWrite, lastIndexed, analyzeRet, search, classify, analytics>>

\* NULL of the themes column, and the JSON text JSON.stringify(themes) stores.
ThemesNull == [t |-> "null", arr |-> <<>>]
JsonStringify(arr) == [t |-> "text", arr |-> arr]

\* A row as INSERT INTO feedback (source, content, author, ...) creates it:
\* the classification columns NULL, processed DEFAULT 0. The model has one
\* source, one author and one instant.
NewRow(content) ==
    [source          |-> "support",
     content         |-> content,
     author          |-> "user",
     created_at      |-> "now",
     sentiment       |-> Null,
     sentiment_score |-> Null,
     urgency         |-> Null,
     themes          |-> ThemesNull,
     processed       |-> 0]

NoReturn == [kind |-> "none", processed |-> 0, successful |-> 0, embedded |-> 0,
             failed |-> 0]

InitRun ==
    /\ pc = [r \in Runs |-> "idle"]
    /\ feedbackItems = [r \in Runs |-> <<>>]
    /\ analysisResults = [r \in Runs |-> <<>>]
    /\ embedNext = [r \in Runs |-> 1]
    /\ embeddingResults = [r \in Runs |-> <<>>]
    /\ ret = [r \in Runs |-> NoReturn]
    /\ aiCalls = [r \in Runs |-> 0]
    /\ committed = [r \in Runs |-> {}]
    /\ embedTried = [r \in Runs |-> {}]
    /\ inserted = [r \in Runs |-> {}]
    /\ fetchedAfterFull = [r \in Runs |-> FALSE]
    /\ fullyProcessed = FALSE

\* A call a run made: op is fetch, analyze, persist, embed or invalidate; id the
\* row it was made for (0 for none); ok whether it returned; dim the length
\* of the array generateEmbedding returned (0 for none).
Event(op, id, ok, dim) == [op |-> op, id |-> id, ok |-> ok, dim |-> dim]

\* The values a committed UPDATE wrote, with the handler and run that issued
\* it and whether the sentiment reply it had received was unusable (the call
\* threw, the text held no {...}, or JSON.parse threw).
WriteRecord(handler, run, reply, sentiment, score, urgency, themes) ==
    [handler |-> handler, run |-> run, failed |-> reply.kind # "json",
     sentiment |-> sentiment, sentiment_score |-> score, urgency |-> urgency,
     themes |-> themes]

\* f with id mapped to rec.
Recorded(f, id, rec) ==
    [i \in DOMAIN f \cup {id} |-> IF i = id THEN rec ELSE f[i]]

\* No POST /api/analyze has been answered. A response carries, as history,
\* the UPDATEs that committed during the request and the rows it read.
NoResponse == [status |-> 0, analyzed |-> 0, total |-> 0, updates |-> 0, rows |-> 0]

SearchIdle == [pc |-> "idle", matches |-> <<>>, ret |-> <<>>]

\* No classification has been computed. A computation carries, as history,
\* the rule set used, the two counts, the negation flag, the urgency tiers
\* the content has a keyword of, and the urgency reply of the model.
ClassifyIdle ==
    [pc |-> "idle", rules |-> 0, positiveCount |-> 0, negativeCount |-> 0,
     hasNegation |-> FALSE, sentiment |-> Null, score |-> Null, urgency |-> Null,
     critical |-> FALSE, high |-> FALSE, low |-> FALSE, reply |-> <<>>]

\* The analytics GET /api/analytics computes from the table: the row count
\* and the number of rows of each sentiment.
ComputeAnalytics(table) ==
    [totalFeedback      |-> Len(table),
     sentimentBreakdown |->
         [s \in {"positive", "neutral", "negative"} |->
             Cardinality({i \in DOMAIN table : table[i].sentiment = Str(s)})]]

\* No GET /api/analytics is in flight and none has stored a value.
AnalyticsIdle ==
    [pc |-> "idle", analytics |-> ComputeAnalytics(<<>>),
     cached |-> ComputeAnalytics(<<>>)]

InitHistory ==
    /\ events = [r \in Runs |-> <<>>]
    /\ lastWrite = <<>>
    /\ lastIndexed = <<>>
    /\ analyzeRet = NoResponse
    /\ search = SearchIdle
    /\ classify = ClassifyIdle
    /\ analytics = AnalyticsIdle

\* No indexAllFeedback call has been made.
IndexAllIdle ==
    [pc |-> "idle", allFeedback |-> <<>>, i |-> 0, k |-> 0, vectors |-> <<>>,
     embedFailed |-> {}, indexed |-> 0, failed |-> 0, log |-> <<>>,
     ret |-> [kind |-> "none", indexed |-> 0, failed |-> 0, total |-> 0]]

Init ==
    /\ feedback = <<>>
    /\ vectorize = <<>>
    /\ kv = "absent"
    /\ InitRun
    /\ InitHistory
    /\ indexAll = IndexAllIdle

\* ------------------------------------------------------------------------
\* POST /api/feedback
\* ------------------------------------------------------------------------

CreateFeedback(content) ==
    /\ Len(feedback) < MaxItems
    /\ feedback' = Append(feedback, NewRow(content))
    /\ fullyProcessed' = FALSE
    /\ UNCHANGED <<vectorize, kv, indexAll>>
    /\ UNCHANGED runVars
    /\ UNCHANGED histVars

\* ------------------------------------------------------------------------
\* GET /api/seed, GET /api/analytics, reset.sql
\* ------------------------------------------------------------------------

\* The entries seedDatabase inserts, cut to two (texts of the model stand for
\* the mock texts).
mockFeedback == <<TextPlain, TextBroken>>

\* GET /api/seed: seedDatabase inserts the entries one by one; when the n-th
\* INSERT throws, with n - 1 rows in, the route answers 500; after the last one
\* the route deletes the cache key, and answers 500 when that throws.
Seed(count, kvOk) ==
    /\ Len(feedback) + Len(mockFeedback) <= MaxItems
    /\ count \in 0..Len(mockFeedback)
    /\ feedback' = feedback \o [i \in 1..count |-> NewRow(mockFeedback[i])]
    /\ kv' = IF count = Len(mockFeedback) /\ kvOk THEN "absent" ELSE kv
    /\ fullyProcessed' = IF count > 0 THEN FALSE ELSE fullyProcessed
    /\ UNCHANGED <<vectorize, indexAll>>
    /\ UNCHANGED runVars
    /\ UNCHANGED histVars

\* GET /api/analytics: a cached value is returned as it is; otherwise the
\* analytics are computed from the table and put under the key. A KV.get or
\* KV.put that throws leaves the key as it was.
GetAnalytics(kvOk) ==
    /\ kv' = IF kv = "absent" /\ kvOk THEN "cached" ELSE kv
    /\ analytics' = IF kv = "absent" /\ kvOk
                    THEN [analytics EXCEPT !.cached = ComputeAnalytics(feedback)]
                    ELSE analytics
    /\ UNCHANGED <<feedback, vectorize, indexAll, fullyProcessed>>
    /\ UNCHANGED runVars
    /\ UNCHANGED <<events, lastWrite, lastIndexed, analyzeRet, search, classify>>

\* GET /api/analytics in its two halves, between which other requests and
\* workflow steps run: KV.get finds no value and the queries compute the
\* analytics from the table ...
AnalyticsCompute ==
    /\ analytics.pc = "idle"
    /\ kv = "absent"
    /\ analytics' = [analytics EXCEPT !.pc = "computed",
                                      !.analytics = ComputeAnalytics(feedback)]
    /\ UNCHANGED dbVars
    /\ UNCHANGED <<indexAll, fullyProcessed>>
    /\ UNCHANGED runVars
    /\ UNCHANGED <<events, lastWrite, lastIndexed, analyzeRet, search, classify>>

\* ... and KV.put stores them under the key, whatever the key holds by then;
\* a KV.put that throws leaves the key as it was.
AnalyticsPut(kvOk) ==
    /\ analytics.pc = "computed"
    /\ kv' = IF kvOk THEN "cached" ELSE kv
    /\ analytics' = [analytics EXCEPT !.pc = "idle",
                                      !.cached = IF kvOk THEN analytics.analytics ELSE @]
    /\ UNCHANGED <<feedback, vectorize, indexAll, fullyProcessed>>
    /\ UNCHANGED runVars
    /\ UNCHANGED <<events, lastWrite, lastIndexed, analyzeRet, search, classify>>

\* reset.sql, run while no request is in flight: the feedback table is dropped
\* and created again, so ids start at 1 again; the vector index is not touched.
ResetDatabase ==
    /\ \A r \in Runs : pc[r] \in {"idle", "done", "raised"}
    /\ indexAll.pc \in {"idle", "done", "raised"}
    /\ Len(feedback) > 0
    /\ feedback' = <<>>
    /\ lastWrite' = <<>>
    /\ fullyProcessed' = FALSE
    /\ UNCHANGED <<vectorize, kv, indexAll, events, lastIndexed, analyzeRet, search, classify, analytics>>
    /\ UNCHANGED runVars

\* ------------------------------------------------------------------------
\* Replies of the inference service (env.AI.run, llama-3.1-8b-instruct)
\* ------------------------------------------------------------------------

\* A reply to a sentiment prompt: the call throws; or the text holds no {...}
\* ("nomatch"); or the first {...} is not JSON ("badjson"); or it parses to an
\* object with these sentiment and score properties ("json").
SentimentReply(kind, sentiment, score) ==
    [kind |-> kind, sentiment |-> sentiment, score |-> score]

SThrow     == SentimentReply("throw",   Undefined, Undefined)
SNoMatch   == SentimentReply("nomatch", Undefined, Undefined)
SBadJson   == SentimentReply("badjson", Undefined, Undefined)
SHigh      == SentimentReply("json", Str("positive"), Num(2500))
SMixed     == SentimentReply("json", Str("mixed"),    Num(-500))
SEmpty     == SentimentReply("json", Undefined,       Undefined)
SWordScore == SentimentReply("json", Str("negative"), Str("high"))
SStrScore  == SentimentReply("json", Str("positive"), Str("0.8"))

\* A reply to the theme prompt: as above with [...] and the parsed array.
ThemeReply(kind, arr) == [kind |-> kind, arr |-> arr]

TThrow   == ThemeReply("throw",   <<>>)
TNoMatch == ThemeReply("nomatch", <<>>)
TBadJson == ThemeReply("badjson", <<>>)
TNone    == ThemeReply("json", <<>>)
TOne     == ThemeReply("json", <<"performance">>)
TTwice   == ThemeReply("json", <<"bugs", "bugs">>)
TFour    == ThemeReply("json", <<"pricing", "bugs", "features", "support">>)
TGeneral == ThemeReply("json", <<"general", "ui_ux">>)

\* A reply to the urgency prompt: the call throws, or it is this text.
UrgencyReply(kind, text) == [kind |-> kind, text |-> text]

UThrow    == UrgencyReply("throw", <<>>)
UCritical == UrgencyReply("text", <<"C","r","i","t","i","c","a","l">>)
UHigh     == UrgencyReply("text", <<"h","i","g","h">>)
ULow      == UrgencyReply("text", <<"L","o","w">>)
UMedium   == UrgencyReply("text", <<"m","e","d","i","u","m">>)
UBoth     == UrgencyReply("text",
    <<"N","o","t"," ","c","r","i","t","i","c","a","l",","," ","r","a","t","h","e","r"," ","l","o","w">>)
UUnsure   == UrgencyReply("text", <<"u","n","s","u","r","e">>)

\* The three replies one item's analysis receives.
Scenario(s, t, u) == [sentiment |-> s, themes |-> t, urgency |-> u]

\* Every inference call throws.
AIDown == {Scenario(SThrow, TThrow, UThrow)}

\* Replies covering every case of each of the three parsers.
AIScenarios ==
    AIDown \cup
    { Scenario(SNoMatch,   TNoMatch, UUnsure),
      Scenario(SBadJson,   TBadJson, UMedium),
      Scenario(SHigh,      TTwice,   UCritical),
      Scenario(SMixed,     TFour,    UHigh),
      Scenario(SEmpty,     TNone,    ULow),
      Scenario(SWordScore, TGeneral, UBoth),
      Scenario(SStrScore,  TOne,     UThrow) }

\* ------------------------------------------------------------------------
\* FeedbackWorkflow.run, step analyze-<id>: the three parsers
\* ------------------------------------------------------------------------

SentimentValues == {Str("positive"), Str("neutral"), Str("negative")}

\* Math.max(-1, Math.min(1, score))
ClampScore(score) == MathMax(Num(-1000), MathMin(Num(1000), score))

\* a) Sentiment analysis: the defaults neutral, 0 stay when the call throws,
\*    when nothing matches and when JSON.parse throws.
WorkflowSentiment(reply) ==
    IF reply.kind = "json"
    THEN LET s0 == JsOr(reply.sentiment, Str("neutral"))
             c0 == JsOr(reply.score, Num(0))
         IN  [sentiment |-> IF s0 \in SentimentValues THEN s0 ELSE Str("neutral"),
              score     |-> ClampScore(c0)]
    ELSE [sentiment |-> Str("neutral"), score |-> Num(0)]

\* b) Theme extraction: the parsed array cut to three; general when the array
\*    is empty, when nothing matches and when the call or JSON.parse throws.
WorkflowThemes(reply) ==
    IF reply.kind \in {"throw", "badjson"} THEN <<"general">>
    ELSE LET themes == IF reply.kind = "json" THEN SliceTo(reply.arr, 3) ELSE <<>>
         IN  IF Len(themes) = 0 THEN <<"general">> ELSE themes

\* c) Urgency classification: the first of critical, high, low, medium the
\*    lower-cased reply includes; medium otherwise and when the call throws.
WorkflowUrgency(reply) ==
    IF reply.kind = "throw" THEN Str("medium")
    ELSE LET urgencyText == ToLowerCase(reply.text)
         IN  IF Includes(urgencyText, <<"c","r","i","t","i","c","a","l">>)
                THEN Str("critical")
             ELSE IF Includes(urgencyText, <<"h","i","g","h">>) THEN Str("high")
             ELSE IF Includes(urgencyText, <<"l","o","w">>) THEN Str("low")
             ELSE Str("medium")

\* ------------------------------------------------------------------------
\* The store
\* ------------------------------------------------------------------------

\* D1's bind: the parameters travel as JSON, where NaN is null.
D1Bind(v) == IF v.t = "nan" THEN Null ELSE v

\* UPDATE feedback SET sentiment = ?, sentiment_score = ?, urgency = ?,
\*   themes = ?, processed = 1 WHERE id = ?
\* UpdateFeedback without the WHERE id = ?.
UpdateFeedbackEveryRow(table, id, sentiment, score, urgency, themes) ==
    [i \in DOMAIN table |->
        [table[i] EXCEPT !.sentiment       = D1Bind(sentiment),
                         !.sentiment_score = D1Bind(score),
                         !.urgency         = D1Bind(urgency),
                         !.themes          = JsonStringify(themes),
                         !.processed       = 1]]

UpdateFeedback(table, id, sentiment, score, urgency, themes) ==
    IF id \in DOMAIN table
    THEN [table EXCEPT ![id] =
            [@ EXCEPT !.sentiment       = D1Bind(sentiment),
                      !.sentiment_score = D1Bind(score),
                      !.urgency         = D1Bind(urgency),
                      !.themes          = JsonStringify(themes),
                      !.processed       = 1]]
    ELSE table

\* SELECT id, content FROM feedback WHERE processed = 0 LIMIT 10, rows in
\* rowid order.
RECURSIVE SelectUnprocessed(_, _)
SelectUnprocessed(table, from) ==
    IF from > Len(table) THEN <<>>
    ELSE IF table[from].processed = 0
         THEN <<[id |-> from, content |-> table[from].content]>>
                  \o SelectUnprocessed(table, from + 1)
         ELSE SelectUnprocessed(table, from + 1)

\* FetchUnprocessed without the WHERE processed = 0.
FetchEveryRow(table) ==
    SliceTo([id \in DOMAIN table |-> [id |-> id, content |-> table[id].content]],
            FetchLimit)

FetchUnprocessed(table) == SliceTo(SelectUnprocessed(table, 1), FetchLimit)

\* The same query with the table scanned from the highest rowid down.
Reverse(seq) == [i \in 1..Len(seq) |-> seq[Len(seq) + 1 - i]]

FetchUnprocessedReverse(table) ==
    SliceTo(Reverse(SelectUnprocessed(table, 1)), FetchLimit)

\* The query has no ORDER BY: the order of its rows is the order of the scan,
\* which SQLite leaves undefined; it scans a table by ascending or by
\* descending rowid.
FetchOutcomes(table) == {FetchUnprocessed(table), FetchUnprocessedReverse(table)}

\* ------------------------------------------------------------------------
\* FeedbackWorkflow.run
\* ------------------------------------------------------------------------

\* AnalysisResult with a UPDATE that threw reported as a success.
AnalysisResultAlwaysSuccess(item, sentiment, score, urgency, themes, dbOk) ==
    [id |-> item.id, success |-> TRUE, sentiment |-> sentiment,
     sentimentScore |-> score, urgency |-> urgency, themes |-> themes]

\* What the analyze step returns: the classification with success: true when
\* the UPDATE ran, {id, success: false} when it threw.
AnalysisResult(item, sentiment, score, urgency, themes, dbOk) ==
    IF dbOk
    THEN [id |-> item.id, success |-> TRUE, sentiment |-> sentiment,
          sentimentScore |-> score, urgency |-> urgency, themes |-> themes]
    ELSE [id |-> item.id, success |-> FALSE, sentiment |-> Undefined,
          sentimentScore |-> Undefined, urgency |-> Undefined, themes |-> <<>>]

\* EmbedEligible without the test of result.success.
EmbedEligibleAlways(result) == TRUE

\* if (result.success) of the embed loop
EmbedEligible(result) == result.success

\* The first index from k on whose result the embed loop makes a step for.
RECURSIVE NextEligible(_, _)
NextEligible(results, k) ==
    IF k > Len(results) THEN k
    ELSE IF EmbedEligible(results[k]) THEN k
    ELSE NextEligible(results, k + 1)

CountSuccess(results) == Cardinality({i \in DOMAIN results : results[i].success})

\* The object run() returns after the clear-cache step.
RunResult(items, analysis, embedding) ==
    [kind       |-> "completed",
     processed  |-> Len(items),
     successful |-> CountSuccess(analysis),
     embedded   |-> CountSuccess(embedding),
     failed     |-> Len(items) - CountSuccess(analysis)]

\* The early exit of run().
EmptyResult == [kind |-> "empty", processed |-> 0, successful |-> 0, embedded |-> 0,
                failed |-> 0]

\* AfterAnalyze with a failed step ending the run with an error.
AfterAnalyzeRaise(items, results) ==
    IF ~results[Len(results)].success THEN "raised"
    ELSE IF Len(results) < Len(items) THEN "analyze"
    ELSE IF NextEligible(results, 1) > Len(results) THEN "clear"
    ELSE "embed"

\* AfterAnalyze with the loop left as soon as a step reports a failure.
AfterAnalyzeAbort(items, results) ==
    IF ~results[Len(results)].success THEN "clear"
    ELSE IF Len(results) < Len(items) THEN "analyze"
    ELSE IF NextEligible(results, 1) > Len(results) THEN "clear"
    ELSE "embed"

\* Where run() goes after an analyze step: the for loop takes the next
\* fetched item whatever the step returned; after the last one comes the
\* embed loop, or the clear-cache step when no result is eligible.
AfterAnalyze(items, results) ==
    IF Len(results) < Len(items) THEN "analyze"
    ELSE IF NextEligible(results, 1) > Len(results) THEN "clear"
    ELSE "embed"

\* AfterFetch without the early exit.
AfterFetchNoExit(results) == IF Len(results) = 0 THEN "clear" ELSE "analyze"

\* Where run() goes after the fetch: if (feedbackItems.length === 0) return.
AfterFetch(results) == IF Len(results) = 0 THEN "done" ELSE "analyze"

\* POST /api/workflow/trigger: env.WORKFLOW.create() starts an instance.
Trigger(r) ==
    /\ pc[r] \in {"idle", "done", "raised"}
    /\ pc' = [pc EXCEPT ![r] = "fetch"]
    /\ feedbackItems' = [feedbackItems EXCEPT ![r] = <<>>]
    /\ analysisResults' = [analysisResults EXCEPT ![r] = <<>>]
    /\ embedNext' = [embedNext EXCEPT ![r] = 1]
    /\ embeddingResults' = [embeddingResults EXCEPT ![r] = <<>>]
    /\ ret' = [ret EXCEPT ![r] = NoReturn]
    /\ aiCalls' = [aiCalls EXCEPT ![r] = 0]
    /\ committed' = [committed EXCEPT ![r] = {}]
    /\ embedTried' = [embedTried EXCEPT ![r] = {}]
    /\ inserted' = [inserted EXCEPT ![r] = {}]
    /\ fetchedAfterFull' = [fetchedAfterFull EXCEPT ![r] = FALSE]
    /\ events' = [events EXCEPT ![r] = <<>>]
    /\ UNCHANGED dbVars
    /\ UNCHANGED <<indexAll, fullyProcessed, lastWrite, lastIndexed, analyzeRet,
                   search, classify, analytics>>

\* Step fetch-feedback, and the early exit when it found nothing.
Fetch(r, dbOk) ==
    /\ pc[r] = "fetch"
    /\ IF ~dbOk
       THEN /\ pc' = [pc EXCEPT ![r] = "raised"]
            /\ UNCHANGED <<feedbackItems, ret>>
       ELSE \E results \in FetchOutcomes(feedback) :
                /\ feedbackItems' = [feedbackItems EXCEPT ![r] = results]
                /\ pc' = [pc EXCEPT ![r] = AfterFetch(results)]
                /\ ret' = [ret EXCEPT ![r] =
                              IF Len(results) = 0 THEN EmptyResult ELSE @]
    /\ UNCHANGED <<analysisResults, embedNext, embeddingResults, aiCalls, committed,
                   embedTried, inserted, indexAll, fullyProcessed>>
    /\ fetchedAfterFull' = [fetchedAfterFull EXCEPT ![r] = fullyProcessed]
    /\ events' = [events EXCEPT ![r] = Append(@, Event("fetch", 0, dbOk, 0))]
    /\ UNCHANGED dbVars
    /\ UNCHANGED <<lastWrite, lastIndexed, analyzeRet, search, classify, analytics>>

\* Step analyze-<id> for the next fetched item: three inference calls, then
\* the UPDATE, which commits (dbOk) or throws.
Analyze(r, scenario, dbOk) ==
    /\ pc[r] = "analyze"
    /\ LET item   == feedbackItems[r][Len(analysisResults[r]) + 1]
           s      == WorkflowSentiment(scenario.sentiment)
           themes == WorkflowThemes(scenario.themes)
           u      == WorkflowUrgency(scenario.urgency)
           result == AnalysisResult(item, s.sentiment, s.score, u, themes, dbOk)
           all    == Append(analysisResults[r], result)
       IN  /\ feedback' = IF dbOk
                          THEN UpdateFeedback(feedback, item.id, s.sentiment, s.score,
                                              u, themes)
                          ELSE feedback
           /\ analysisResults' = [analysisResults EXCEPT ![r] = all]
           /\ committed' = [committed EXCEPT ![r] = IF dbOk THEN @ \cup {item.id} ELSE @]
           /\ aiCalls' = [aiCalls EXCEPT ![r] = @ + 3]
           /\ embedNext' = [embedNext EXCEPT ![r] = NextEligible(all, 1)]
           /\ pc' = [pc EXCEPT ![r] = AfterAnalyze(feedbackItems[r], all)]
           /\ events' = [events EXCEPT ![r] =
                  @ \o <<Event("analyze", item.id, TRUE, 0),
                         Event("persist", item.id, dbOk, 0)>>]
           /\ lastWrite' =
                  IF dbOk /\ item.id \in DOMAIN feedback
                  THEN Recorded(lastWrite, item.id,
                           WriteRecord("workflow", r, scenario.sentiment,
                               D1Bind(s.sentiment), D1Bind(s.score), D1Bind(u),
                               JsonStringify(themes)))
                  ELSE lastWrite
    /\ UNCHANGED <<vectorize, kv, feedbackItems, embeddingResults, ret, embedTried,
                   inserted, indexAll, fullyProcessed, fetchedAfterFull, lastIndexed,
                   analyzeRet, search, classify, analytics>>

\* ------------------------------------------------------------------------
\* generateEmbedding and indexFeedback
\* ------------------------------------------------------------------------

\* What env.AI.run('@cf/baai/bge-base-en-v1.5') does: it throws; or
\* response.data[0] is no array; or it is an array of dim numbers.
EmbeddingReply(kind, dim) == [kind |-> kind, dim |-> dim]

EThrow    == EmbeddingReply("throw", 0)
ENotArray == EmbeddingReply("notarray", 0)
EGood     == EmbeddingReply("array", EmbeddingDim)
EShort    == EmbeddingReply("array", 3)

EmbeddingReplies == {EThrow, ENotArray, EGood, EShort}

\* generateEmbedding: returns the array, throws on everything else.
GenerateEmbedding(reply) ==
    IF reply.kind = "array"
    THEN [ok |-> TRUE,  dim |-> reply.dim]
    ELSE [ok |-> FALSE, dim |-> 0]

\* VECTORIZE.insert(vectors): a vector whose id the index holds already is
\* left as it is, the others are added.
VectorizeInsert(index, vectors) ==
    LET new == {vectors[i].id : i \in DOMAIN vectors} \ DOMAIN index
        At(id) == CHOOSE i \in DOMAIN vectors :
                      /\ vectors[i].id = id
                      /\ \A j \in DOMAIN vectors : vectors[j].id = id => i <= j
    IN  [id \in DOMAIN index \cup new |->
            IF id \in DOMAIN index THEN index[id]
            ELSE [content |-> vectors[At(id)].content, dim |-> vectors[At(id)].dim]]

\* The vector indexFeedback and indexAllFeedback build for a row.
Vector(id, content, dim) == [id |-> id, content |-> content, dim |-> dim]

\* IndexFeedbackResult with a VECTORIZE.insert that threw not caught.
IndexFeedbackResultInsertIgnored(id, embedding, insertOk) ==
    [id |-> id, success |-> embedding.ok]

\* indexFeedback's return value: success only when generateEmbedding returned
\* and VECTORIZE.insert did not throw.
IndexFeedbackResult(id, embedding, insertOk) ==
    [id |-> id, success |-> embedding.ok /\ insertOk]

\* AfterEmbed with the embed loop left after its first step.
AfterEmbedFirstOnly(results, next) == "clear"

\* Where run() goes after an embed step: the embed loop takes the next
\* successfully analyzed result; after the last one comes clear-cache.
AfterEmbed(results, next) == IF next > Len(results) THEN "clear" ELSE "embed"

\* Step embed-<id> for the next successfully analyzed item.
Embed(r, reply, insertOk) ==
    /\ pc[r] = "embed"
    /\ LET result    == analysisResults[r][embedNext[r]]
           item      == CHOOSE f \in {feedbackItems[r][i] : i \in DOMAIN feedbackItems[r]} :
                            f.id = result.id
           embedding == GenerateEmbedding(reply)
           next      == NextEligible(analysisResults[r], embedNext[r] + 1)
       IN  /\ vectorize' = IF embedding.ok /\ insertOk
                           THEN VectorizeInsert(vectorize,
                                    <<Vector(result.id, item.content, embedding.dim)>>)
                           ELSE vectorize
           /\ inserted' = [inserted EXCEPT ![r] =
                              IF embedding.ok /\ insertOk THEN @ \cup {result.id} ELSE @]
           /\ embedTried' = [embedTried EXCEPT ![r] = @ \cup {result.id}]
           /\ embeddingResults' = [embeddingResults EXCEPT ![r] =
                  Append(@, IndexFeedbackResult(result.id, embedding, insertOk))]
           /\ embedNext' = [embedNext EXCEPT ![r] = next]
           /\ pc' = [pc EXCEPT ![r] = AfterEmbed(analysisResults[r], next)]
           /\ events' = [events EXCEPT ![r] =
                  Append(@, Event("embed", result.id, embedding.ok /\ insertOk,
                                  embedding.dim))]
           /\ lastIndexed' =
                  IF embedding.ok /\ insertOk
                  THEN Recorded(lastIndexed, result.id,
                           [content |-> item.content, dim |-> embedding.dim])
                  ELSE lastIndexed
    /\ UNCHANGED <<feedback, kv, feedbackItems, analysisResults, ret, aiCalls, committed,
                   indexAll, fullyProcessed, fetchedAfterFull, lastWrite, analyzeRet,
                   search, classify, analytics>>

\* Step clear-cache, whose failure is swallowed, and the return of run().
ClearCache(r, kvOk) ==
    /\ pc[r] = "clear"
    /\ kv' = IF kvOk THEN "absent" ELSE kv
    /\ ret' = [ret EXCEPT ![r] =
                  RunResult(feedbackItems[r], analysisResults[r], embeddingResults[r])]
    /\ pc' = [pc EXCEPT ![r] = "done"]
    /\ fullyProcessed' =
          /\ committed[r] = {feedbackItems[r][i].id : i \in DOMAIN feedbackItems[r]}
          /\ \A id \in DOMAIN feedback : feedback[id].processed = 1
    /\ UNCHANGED <<feedback, vectorize, feedbackItems, analysisResults, embedNext,
                   embeddingResults, aiCalls, committed, embedTried, inserted, indexAll,
                   fetchedAfterFull, lastWrite, lastIndexed, analyzeRet, search, classify, analytics>>
    /\ events' = [events EXCEPT ![r] = Append(@, Event("invalidate", 0, kvOk, 0))]

\* ------------------------------------------------------------------------
\* POST /api/analyze: keyword rules
\* ------------------------------------------------------------------------

\* positiveWords of the keyword fallback
positiveWords ==
    << <<"g","r","e","a","t">>, <<"e","x","c","e","l","l","e","n","t">>,
       <<"l","o","v","e">>, <<"a","m","a","z","i","n","g">>,
       <<"a","w","e","s","o","m","e">>, <<"f","a","n","t","a","s","t","i","c">>,
       <<"g","o","o","d">>, <<"h","e","l","p","f","u","l">>,
       <<"p","e","r","f","e","c","t">>, <<"w","o","n","d","e","r","f","u","l">>,
       <<"b","e","s","t">>, <<"t","h","a","n","k">>,
       <<"a","p","p","r","e","c","i","a","t","e">>, <<"h","a","p","p","y">>,
       <<"s","a","t","i","s","f","i","e","d">>, <<"r","e","c","o","m","m","e","n","d">> >>

\* negativeWords of the keyword fallback
negativeWords ==
    << <<"b","a","d">>, <<"t","e","r","r","i","b","l","e">>, <<"h","a","t","e">>,
       <<"a","w","f","u","l">>, <<"w","o","r","s","t">>,
       <<"h","o","r","r","i","b","l","e">>, <<"b","r","o","k","e","n">>, <<"b","u","g">>,
       <<"c","r","a","s","h">>, <<"e","r","r","o","r">>, <<"i","s","s","u","e">>,
       <<"p","r","o","b","l","e","m">>, <<"f","r","u","s","t","r","a","t">>,
       <<"d","i","s","a","p","p","o","i","n","t">>, <<"a","n","n","o","y","i","n","g">>,
       <<"u","s","e","l","e","s","s">>, <<"s","l","o","w">>,
       <<"d","i","f","f","i","c","u","l","t">> >>

\* The theme rules in the order the handler tests them: the tag pushed and the
\* keywords of which the content must include one.
ThemeRules ==
    <<
      [tag |-> "performance", words |->
        << <<"s","l","o","w">>, <<"p","e","r","f","o","r","m","a","n","c","e">>,
           <<"s","p","e","e","d">>, <<"f","a","s","t">>, <<"l","a","g">> >>],
      [tag |-> "ui_ux", words |->
        << <<"u","i">>, <<"d","e","s","i","g","n">>,
           <<"i","n","t","e","r","f","a","c","e">>, <<"l","o","o","k">>,
           <<"l","a","y","o","u","t">>, <<"u","x">> >>],
      [tag |-> "pricing", words |->
        << <<"p","r","i","c","e">>, <<"c","o","s","t">>,
           <<"e","x","p","e","n","s","i","v","e">>, <<"c","h","e","a","p">>,
           <<"p","a","y","m","e","n","t">>,
           <<"s","u","b","s","c","r","i","p","t","i","o","n">> >>],
      [tag |-> "bugs", words |->
        << <<"b","u","g">>, <<"e","r","r","o","r">>, <<"c","r","a","s","h">>,
           <<"b","r","o","k","e","n">>, <<"i","s","s","u","e">>,
           <<"p","r","o","b","l","e","m">> >>],
      [tag |-> "features", words |->
        << <<"f","e","a","t","u","r","e">>, <<"r","e","q","u","e","s","t">>,
           <<"a","d","d">>, <<"n","e","e","d">>, <<"w","a","n","t">>, <<"w","i","s","h">> >>],
      [tag |-> "documentation", words |->
        << <<"d","o","c">>, <<"d","o","c","u","m","e","n","t","a","t","i","o","n">>,
           <<"g","u","i","d","e">>, <<"t","u","t","o","r","i","a","l">>, <<"h","e","l","p">> >>],
      [tag |-> "support", words |->
        << <<"s","u","p","p","o","r","t">>,
           <<"c","u","s","t","o","m","e","r"," ","s","e","r","v","i","c","e">>,
           <<"r","e","s","p","o","n","s","e">>, <<"h","e","l","p">> >>],
      [tag |-> "security", words |->
        << <<"s","e","c","u","r","i","t","y">>, <<"p","r","i","v","a","c","y">>,
           <<"s","a","f","e">>, <<"d","a","t","a">> >>],
      [tag |-> "integration", words |->
        << <<"i","n","t","e","g","r","a","t">>, <<"a","p","i">>,
           <<"c","o","n","n","e","c","t">> >>]
    >>

\* Critical urgency keywords
criticalKeywords ==
    << <<"c","r","a","s","h">>, <<"b","r","o","k","e","n">>, <<"u","r","g","e","n","t">>,
       <<"c","r","i","t","i","c","a","l">>, <<"d","o","w","n">>,
       <<"n","o","t"," ","w","o","r","k","i","n","g">>,
       <<"c","a","n","'","t"," ","u","s","e">>, <<"c","a","n","n","o","t"," ","u","s","e">> >>

\* High urgency keywords
highKeywords ==
    << <<"b","u","g">>, <<"e","r","r","o","r">>, <<"i","s","s","u","e">>,
       <<"p","r","o","b","l","e","m">>, <<"f","a","i","l">>, <<"w","r","o","n","g">> >>

\* Low urgency keywords
lowKeywords ==
    << <<"n","i","c","e">>, <<"w","o","u","l","d"," ","b","e">>,
       <<"s","u","g","g","e","s","t","i","o","n">>, <<"c","o","u","l","d">>,
       <<"m","a","y","b","e">>, <<"c","o","n","s","i","d","e","r">>,
       <<"l","o","v","e"," ","t","o"," ","s","e","e">> >>


\* Some keyword of words occurs in content.
IncludesAny(content, words) == \E i \in DOMAIN words : Includes(content, words[i])

\* words.forEach(word => { if (content.includes(word)) count++ })
CountMatches(content, words) ==
    Cardinality({i \in DOMAIN words : Includes(content, words[i])})

\* PositiveScore without the cap at 1.
PositiveScoreUncapped(positiveCount) == Num(400 + positiveCount * 150)

\* Math.min(0.4 + positiveCount * 0.15, 1)
PositiveScore(positiveCount) == MathMin(Num(400 + positiveCount * 150), Num(1000))

\* Math.max(-0.4 - negativeCount * 0.15, -1)
NegativeScore(negativeCount) == MathMax(Num(-400 - negativeCount * 150), Num(-1000))

\* The keyword fallback of the sentiment analysis, on the lower-cased content.
KeywordSentiment(content) ==
    LET positiveCount == CountMatches(content, positiveWords)
        negativeCount == CountMatches(content, negativeWords)
    IN  IF positiveCount > negativeCount /\ positiveCount > 0
        THEN [sentiment |-> Str("positive"), score |-> PositiveScore(positiveCount)]
        ELSE IF negativeCount > positiveCount /\ negativeCount > 0
        THEN [sentiment |-> Str("negative"), score |-> NegativeScore(negativeCount)]
        ELSE [sentiment |-> Str("neutral"), score |-> Num(0)]

\* AnalyzeSentiment with the defaults kept, as the workflow keeps them, when
\* the reply cannot be used.
AnalyzeSentimentDefaults(reply, content) ==
    IF reply.kind = "json"
    THEN LET s0 == JsOr(reply.sentiment, Str("neutral"))
             c0 == JsOr(reply.score, Num(0))
         IN  [sentiment |-> IF s0 \in SentimentValues THEN s0 ELSE Str("neutral"),
              score     |-> ClampScore(c0)]
    ELSE [sentiment |-> Str("neutral"), score |-> Num(0)]

\* 1. Sentiment: the model's reply when it parses, the keyword fallback when
\*    the call throws, nothing matches or JSON.parse throws.
AnalyzeSentiment(reply, content) ==
    IF reply.kind = "json"
    THEN LET s0 == JsOr(reply.sentiment, Str("neutral"))
             c0 == JsOr(reply.score, Num(0))
         IN  [sentiment |-> IF s0 \in SentimentValues THEN s0 ELSE Str("neutral"),
              score     |-> ClampScore(c0)]
    ELSE KeywordSentiment(content)

\* The tags of the rules from k on that the content matches, in rule order.
RECURSIVE MatchedThemes(_, _)
MatchedThemes(content, k) ==
    IF k > Len(ThemeRules) THEN <<>>
    ELSE IF IncludesAny(content, ThemeRules[k].words)
         THEN <<ThemeRules[k].tag>> \o MatchedThemes(content, k + 1)
         ELSE MatchedThemes(content, k + 1)

\* KeywordThemes without the general category for a content no rule matches.
KeywordThemesNoGeneral(content) == SliceTo(MatchedThemes(content, 1), 3)

\* 2. Themes: general when no rule matched; cut to three.
KeywordThemes(content) ==
    LET themes == MatchedThemes(content, 1)
    IN  SliceTo(IF Len(themes) = 0 THEN <<"general">> ELSE themes, 3)

\* KeywordUrgency with the tiers tried from the lowest up.
KeywordUrgencyLowFirst(content) ==
    IF IncludesAny(content, lowKeywords) THEN Str("low")
    ELSE IF IncludesAny(content, highKeywords) THEN Str("high")
    ELSE IF IncludesAny(content, criticalKeywords) THEN Str("critical")
    ELSE Str("medium")

\* 3. Urgency: the first tier with a keyword in the content, medium otherwise.
KeywordUrgency(content) ==
    IF IncludesAny(content, criticalKeywords) THEN Str("critical")
    ELSE IF IncludesAny(content, highKeywords) THEN Str("high")
    ELSE IF IncludesAny(content, lowKeywords) THEN Str("low")
    ELSE Str("medium")

\* The classification POST /api/analyze computes for a row's content.
\* AnalyzeClassify with the urgency left at its default when the model's
\* sentiment reply could be used.
AnalyzeClassifyByReply(reply, rawContent) ==
    LET content == ToLowerCase(rawContent)
        s       == AnalyzeSentiment(reply, content)
    IN  [sentiment |-> s.sentiment, score |-> s.score,
         urgency   |-> IF reply.kind = "json" THEN Str("medium")
                       ELSE KeywordUrgency(content),
         themes    |-> KeywordThemes(content)]

AnalyzeClassify(reply, rawContent) ==
    LET content == ToLowerCase(rawContent)
        s       == AnalyzeSentiment(reply, content)
    IN  [sentiment |-> s.sentiment, score |-> s.score,
         urgency   |-> KeywordUrgency(content),
         themes    |-> KeywordThemes(content)]

\* The sentiment replies of the model.
SentimentReplies ==
    {SThrow, SNoMatch, SBadJson, SHigh, SMixed, SEmpty, SWordScore, SStrScore}

\* The classification of every text of the model under every sentiment reply.
KeywordTable ==
    [text \in Texts |-> [reply \in SentimentReplies |-> AnalyzeClassify(reply, text)]]

\* The classification of one row of the loop.
AnalyzeRow(reply, content) == KeywordTable[content][reply]

\* The UPDATEs of the loop that committed, on top of the earlier ones.
AnalyzeWrites(table, outcome, prev) ==
    [id \in DOMAIN prev \cup {i \in DOMAIN table : outcome[i].dbOk} |->
        IF id \in DOMAIN table /\ outcome[id].dbOk
        THEN LET c == AnalyzeRow(outcome[id].reply, table[id].content)
             IN  WriteRecord("analyze", 0, outcome[id].reply, D1Bind(c.sentiment),
                             D1Bind(c.score), D1Bind(c.urgency),
                             JsonStringify(c.themes))
        ELSE prev[id]]

\* The response of POST /api/analyze: KV.delete is awaited outside any try of
\* the route, so when it throws the global handler answers 500.
AnalyzeResponse(table, outcome, kvOk) ==
    LET analyzedCount == Cardinality({i \in DOMAIN table : outcome[i].dbOk})
    IN  IF kvOk
        THEN [status |-> 200, analyzed |-> analyzedCount, total |-> Len(table),
              updates |-> analyzedCount, rows |-> Len(table)]
        ELSE [status |-> 500, analyzed |-> 0, total |-> 0,
              updates |-> analyzedCount, rows |-> Len(table)]

\* The loop of POST /api/analyze over the rows from i on: outcome[i] is the
\* sentiment reply row i receives and whether its UPDATE commits; a row
\* whose UPDATE throws is skipped.
RECURSIVE AnalyzeRows(_, _, _)
AnalyzeRows(table, outcome, i) ==
    IF i > Len(table) THEN table
    ELSE LET c == AnalyzeRow(outcome[i].reply, table[i].content)
             updated == IF outcome[i].dbOk
                        THEN UpdateFeedback(table, i, c.sentiment, c.score, c.urgency,
                                            c.themes)
                        ELSE table
         IN  AnalyzeRows(updated, outcome, i + 1)

\* POST /api/analyze: every row is analyzed again, then the cache key is
\* deleted; an empty table returns before that.
AnalyzeAll(outcome, kvOk) ==
    /\ Len(feedback) > 0
    /\ feedback' = AnalyzeRows(feedback, outcome, 1)
    /\ kv' = IF kvOk THEN "absent" ELSE kv
    /\ lastWrite' = AnalyzeWrites(feedback, outcome, lastWrite)
    /\ analyzeRet' = AnalyzeResponse(feedback, outcome, kvOk)
    /\ UNCHANGED <<vectorize, indexAll, fullyProcessed, events, lastIndexed, search, classify, analytics>>
    /\ UNCHANGED runVars

\* What one row of POST /api/analyze may meet.
AnalyzeOutcomes(replies) == [reply : replies, dbOk : BOOLEAN]

\* ------------------------------------------------------------------------
\* POST /api/analyze: the keyword sentiment rules, in the worker that falls
\* back to them and in the keyword-only worker
\* ------------------------------------------------------------------------

\* positiveWords of the keyword-only worker
positiveWords2 ==
    << <<"g","r","e","a","t">>, <<"e","x","c","e","l","l","e","n","t">>,
       <<"l","o","v","e">>, <<"a","m","a","z","i","n","g">>,
       <<"a","w","e","s","o","m","e">>, <<"f","a","n","t","a","s","t","i","c">>,
       <<"g","o","o","d">>, <<"h","e","l","p","f","u","l">>,
       <<"p","e","r","f","e","c","t">>, <<"w","o","n","d","e","r","f","u","l">>,
       <<"b","e","s","t">>, <<"t","h","a","n","k">>,
       <<"a","p","p","r","e","c","i","a","t","e">>,
       <<"i","m","p","r","e","s","s","e","d">>,
       <<"o","u","t","s","t","a","n","d","i","n","g">>,
       <<"b","r","i","l","l","i","a","n","t">>, <<"s","u","p","e","r","b">>,
       <<"n","i","c","e">>, <<"b","e","a","u","t","i","f","u","l">>,
       <<"e","a","s","y">>, <<"s","m","o","o","t","h">>, <<"f","a","s","t">>,
       <<"e","f","f","i","c","i","e","n","t">>, <<"r","e","l","i","a","b","l","e">>,
       <<"s","o","l","i","d">>, <<"c","l","e","a","n">>,
       <<"i","n","t","u","i","t","i","v","e">>,
       <<"u","s","e","r","-","f","r","i","e","n","d","l","y">>,
       <<"w","o","r","k","s"," ","w","e","l","l">>, <<"h","a","p","p","y">>,
       <<"s","a","t","i","s","f","i","e","d">>, <<"p","l","e","a","s","e","d">>,
       <<"d","e","l","i","g","h","t","e","d">>, <<"r","e","c","o","m","m","e","n","d">>,
       <<"u","s","e","f","u","l">>, <<"v","a","l","u","a","b","l","e">>,
       <<"q","u","a","l","i","t","y">> >>

\* negativeWords of the keyword-only worker
negativeWords2 ==
    << <<"b","a","d">>, <<"t","e","r","r","i","b","l","e">>, <<"h","a","t","e">>,
       <<"a","w","f","u","l">>, <<"w","o","r","s","t">>,
       <<"h","o","r","r","i","b","l","e">>, <<"b","r","o","k","e","n">>,
       <<"b","u","g">>, <<"c","r","a","s","h">>, <<"e","r","r","o","r">>,
       <<"i","s","s","u","e">>, <<"p","r","o","b","l","e","m">>,
       <<"f","r","u","s","t","r","a","t">>, <<"d","i","s","a","p","p","o","i","n","t">>,
       <<"a","n","n","o","y","i","n","g">>, <<"u","s","e","l","e","s","s">>,
       <<"s","l","o","w">>, <<"d","i","f","f","i","c","u","l","t">>,
       <<"c","o","n","f","u","s","i","n","g">>,
       <<"c","o","m","p","l","i","c","a","t","e","d">>, <<"h","a","r","d">>,
       <<"p","o","o","r">>, <<"f","a","i","l">>, <<"w","r","o","n","g">>,
       <<"m","e","s","s">>, <<"s","u","c","k","s">>, <<"w","a","s","t","e">>,
       <<"l","a","c","k","i","n","g">>, <<"m","i","s","s","i","n","g">>,
       <<"u","n","a","b","l","e">>, <<"c","a","n","n","o","t">>,
       <<"c","a","n","'","t">>, <<"d","o","e","s","n","'","t"," ","w","o","r","k">>,
       <<"n","o","t"," ","w","o","r","k","i","n","g">>, <<"s","t","o","p","p","e","d">>,
       <<"f","r","e","e","z","e","s">>, <<"l","a","g","g","y">>,
       <<"b","u","g","g","y">>, <<"g","l","i","t","c","h">>,
       <<"u","n","s","t","a","b","l","e">> >>

\* negationWords
negationWords ==
    << <<"n","o","t">>, <<"n","o">>, <<"d","o","n","'","t">>,
       <<"d","o","e","s","n","'","t">>, <<"d","i","d","n","'","t">>,
       <<"n","e","v","e","r">>, <<"n","e","i","t","h","e","r">>, <<"n","o","r">>,
       <<"n","o","t","h","i","n","g">> >>

\* negationWords.some(word => content.includes(word))
HasNegation(content) == IncludesAny(content, negationWords)

\* sentimentScore *= 0.5, in thousandths
Halved(score) == Num((score.n * 5) \div 10)

\* Dampened with the score halved and the label kept whatever the result.
DampenedKeepLabel(score) == [sentiment |-> Str("positive"), score |-> Halved(score)]

\* The negation branch: the positive score halved, neutral and 0 when the
\* halved score is below 0.3.
Dampened(score) ==
    IF Halved(score).n < 300
    THEN [sentiment |-> Str("neutral"), score |-> Num(0)]
    ELSE [sentiment |-> Str("positive"), score |-> Halved(score)]

\* The sentiment rules of the keyword-only worker, on the lower-cased
\* content.
KeywordSentiment2(content) ==
    LET positiveCount == CountMatches(content, positiveWords2)
        negativeCount == CountMatches(content, negativeWords2)
        hasNegation   == HasNegation(content)
    IN  IF positiveCount > negativeCount
        THEN IF hasNegation /\ positiveCount <= 2
             THEN Dampened(PositiveScore(positiveCount))
             ELSE [sentiment |-> Str("positive"), score |-> PositiveScore(positiveCount)]
        ELSE IF negativeCount > positiveCount
        THEN [sentiment |-> Str("negative"), score |-> NegativeScore(negativeCount)]
        ELSE IF positiveCount > 0 /\ negativeCount > 0
        THEN [sentiment |-> Str("neutral"),
              score     |-> Num((positiveCount - negativeCount) * 100)]
        ELSE [sentiment |-> Str("neutral"), score |-> Num(0)]

\* Phrases a feedback content is put together from.
Phrases ==
    << <<"I","t"," ","c","r","a","s","h","e","s">>,
       <<"n","i","c","e">>,
       <<"G","o","o","d">>,
       <<"g","r","e","a","t"," ","l","o","v","e">>,
       <<"p","e","r","f","e","c","t"," ","b","e","s","t">>,
       <<"b","a","d">>,
       <<"s","l","o","w"," ","b","u","g">>,
       <<"h","a","t","e"," ","a","w","f","u","l">>,
       <<"n","e","v","e","r">> >>

\* The content made of the phrases chosen, in order, a space after each.
RECURSIVE Compose(_, _)
Compose(chosen, k) ==
    IF k > Len(Phrases) THEN <<>>
    ELSE (IF k \in chosen THEN Phrases[k] \o <<" ">> ELSE <<>>)
             \o Compose(chosen, k + 1)

\* The keyword sentiment of one content under one of the two rule sets:
\* const content = feedback.content.toLowerCase(), then the counts and the
\* rules. A computation does not depend on the ones before it, so the model
\* follows one.
KeywordAnalyze(rules, chosen) ==
    /\ classify.pc = "idle"
    /\ LET content == ToLowerCase(Compose(chosen, 1))
           s == IF rules = 1 THEN KeywordSentiment(content)
                ELSE KeywordSentiment2(content)
       IN  classify' =
               [pc |-> "done", rules |-> rules,
                positiveCount |-> CountMatches(content,
                    IF rules = 1 THEN positiveWords ELSE positiveWords2),
                negativeCount |-> CountMatches(content,
                    IF rules = 1 THEN negativeWords ELSE negativeWords2),
                hasNegation |-> HasNegation(content),
                sentiment |-> s.sentiment, score |-> s.score,
                urgency |-> KeywordUrgency(content),
                critical |-> IncludesAny(content, criticalKeywords),
                high |-> IncludesAny(content, highKeywords),
                low |-> IncludesAny(content, lowKeywords),
                reply |-> <<>>]
    /\ UNCHANGED <<feedback, vectorize, kv, indexAll, fullyProcessed, events, lastWrite,
                   lastIndexed, analyzeRet, search, analytics>>
    /\ UNCHANGED runVars

\* Step c) of the workflow's analyze step for one content: the urgency is
\* read off the model's reply, medium when the call throws.
ClassifyUrgency(chosen, reply) ==
    /\ classify.pc = "idle"
    /\ LET content == ToLowerCase(Compose(chosen, 1))
       IN  classify' =
               [ClassifyIdle EXCEPT
                   !.pc = "urgency",
                   !.urgency = WorkflowUrgency(reply),
                   !.critical = IncludesAny(content, criticalKeywords),
                   !.high = IncludesAny(content, highKeywords),
                   !.low = IncludesAny(content, lowKeywords),
                   !.reply = reply]
    /\ UNCHANGED <<feedback, vectorize, kv, indexAll, fullyProcessed, events, lastWrite,
                   lastIndexed, analyzeRet, search, analytics>>
    /\ UNCHANGED runVars

\* ------------------------------------------------------------------------
\* indexAllFeedback (POST /api/embeddings/index-all)
\* ------------------------------------------------------------------------

\* SELECT id, content FROM feedback
SelectAll(table) == [id \in DOMAIN table |-> [id |-> id, content |-> table[id].content]]

\* The object indexAllFeedback returns after the loop.
IndexAllResult(indexed, failed, total) ==
    [kind |-> "completed", indexed |-> indexed, failed |-> failed, total |-> total]

\* The chunk the loop is at: allFeedback.slice(i, i + batchSize)
CurrentBatch == SliceFrom(indexAll.allFeedback, indexAll.i, batchSize)

\* The counters after the embedding call of one item.
CountEmbedding(indexed, failed, embeddingOk) ==
    IF embeddingOk
    THEN [indexed |-> indexed + 1, failed |-> failed]
    ELSE [indexed |-> indexed,     failed |-> failed + 1]

\* CountInsert without the indexed -= vectors.length of the catch.
CountInsertNoRollback(indexed, failed, vectors, insertOk) ==
    IF Len(vectors) > 0 /\ ~insertOk
    THEN [indexed |-> indexed, failed |-> failed + Len(vectors)]
    ELSE [indexed |-> indexed, failed |-> failed]

\* The counters after the chunk's bulk insert, which is made only for a
\* chunk with at least one vector.
CountInsert(indexed, failed, vectors, insertOk) ==
    IF Len(vectors) > 0 /\ ~insertOk
    THEN [indexed |-> indexed - Len(vectors), failed |-> failed + Len(vectors)]
    ELSE [indexed |-> indexed, failed |-> failed]

\* The vectors of a chunk that reach the index.
ChunkInsert(index, vectors, insertOk) ==
    IF Len(vectors) > 0 /\ insertOk THEN VectorizeInsert(index, vectors) ELSE index

\* The call starts: it reads every row, and returns at once on an empty table.
IndexAllStart(dbOk) ==
    /\ indexAll.pc = "idle"
    /\ IF ~dbOk
       THEN indexAll' = [indexAll EXCEPT !.pc = "raised"]
       ELSE LET allFeedback == SelectAll(feedback)
            IN  IF Len(allFeedback) = 0
                THEN indexAll' = [indexAll EXCEPT !.pc = "done",
                                     !.ret = [kind |-> "empty", indexed |-> 0,
                                              failed |-> 0, total |-> 0]]
                ELSE indexAll' = [indexAll EXCEPT !.pc = "embed",
                                     !.allFeedback = allFeedback]
    /\ UNCHANGED dbVars
    /\ UNCHANGED fullyProcessed
    /\ UNCHANGED runVars
    /\ UNCHANGED histVars

\* The embedding call of the chunk's next item.
IndexAllEmbed(reply) ==
    /\ indexAll.pc = "embed"
    /\ LET fb        == CurrentBatch[indexAll.k + 1]
           embedding == GenerateEmbedding(reply)
           counts    == CountEmbedding(indexAll.indexed, indexAll.failed, embedding.ok)
       IN  indexAll' = [indexAll EXCEPT
               !.vectors = IF embedding.ok
                           THEN Append(@, Vector(fb.id, fb.content, embedding.dim))
                           ELSE @,
               !.embedFailed = IF embedding.ok THEN @ ELSE @ \cup {fb.id},
               !.indexed = counts.indexed,
               !.failed = counts.failed,
               !.k = @ + 1,
               !.pc = IF indexAll.k + 1 = Len(CurrentBatch) THEN "insert" ELSE "embed"]
    /\ UNCHANGED dbVars
    /\ UNCHANGED fullyProcessed
    /\ UNCHANGED runVars
    /\ UNCHANGED histVars

\* The chunk's bulk insert; after the last chunk the call returns.
IndexAllInsert(insertOk) ==
    /\ indexAll.pc = "insert"
    /\ LET vectors == indexAll.vectors
           counts  == CountInsert(indexAll.indexed, indexAll.failed, vectors, insertOk)
           chunk   == [ids         |-> {CurrentBatch[j].id : j \in DOMAIN CurrentBatch},
                       embedFailed |-> indexAll.embedFailed,
                       insertOk    |-> insertOk,
                       before      |-> DOMAIN vectorize,
                       after       |-> DOMAIN vectorize',
                       indexed     |-> counts.indexed,
                       failed      |-> counts.failed]
           last    == indexAll.i + batchSize >= Len(indexAll.allFeedback)
       IN  /\ vectorize' = ChunkInsert(vectorize, vectors, insertOk)
           /\ lastIndexed' =
                  IF insertOk
                  THEN [id \in DOMAIN lastIndexed \cup {vectors[j].id : j \in DOMAIN vectors} |->
                           IF \E j \in DOMAIN vectors : vectors[j].id = id
                           THEN LET v == CHOOSE v \in {vectors[j] : j \in DOMAIN vectors} :
                                             v.id = id
                                IN  [content |-> v.content, dim |-> v.dim]
                           ELSE lastIndexed[id]]
                  ELSE lastIndexed
           /\ indexAll' = [indexAll EXCEPT
                  !.indexed = counts.indexed,
                  !.failed = counts.failed,
                  !.log = Append(@, chunk),
                  !.vectors = <<>>,
                  !.embedFailed = {},
                  !.k = 0,
                  !.i = @ + batchSize,
                  !.pc = IF last THEN "done" ELSE "embed",
                  !.ret = IF last
                          THEN IndexAllResult(counts.indexed, counts.failed,
                                              Len(indexAll.allFeedback))
                          ELSE @]
    /\ UNCHANGED <<feedback, kv, fullyProcessed, events, lastWrite, analyzeRet, search, classify, analytics>>
    /\ UNCHANGED runVars

\* ------------------------------------------------------------------------
\* searchSimilar
\* ------------------------------------------------------------------------

Digits == <<"0", "1", "2", "3", "4", "5", "6", "7", "8", "9">>

\* Number.prototype.toString of a non-negative integer, as indexFeedback and
\* indexAllFeedback make a vector id of a row id.
RECURSIVE NumberToString(_)
NumberToString(n) ==
    IF n < 10 THEN <<Digits[n + 1]>>
    ELSE NumberToString(n \div 10) \o <<Digits[(n % 10) + 1]>>

DigitValue(c) == CHOOSE d \in 0..9 : Digits[d + 1] = c

\* parseInt: the number the leading decimal digits spell, NaN without any.
RECURSIVE ParseDigits(_, _, _)
ParseDigits(str, i, acc) ==
    IF i > Len(str) \/ \A d \in 0..9 : Digits[d + 1] # str[i] THEN acc
    ELSE ParseDigits(str, i + 1, acc * 10 + DigitValue(str[i]))

ParseInt(str) ==
    IF Len(str) = 0 \/ \A d \in 0..9 : Digits[d + 1] # str[1] THEN NaN
    ELSE Num(ParseDigits(str, 1, 0))

\* The similarity scores of the model, in thousandths.
SimilarityScores == {250, 500, 900}

\* The matches VECTORIZE.query may return from an index: any vectors of the
\* index, each once, at most limit of them, with any scores in any order.
IndexMatches(index) ==
    {[id |-> NumberToString(i), score |-> sc, metadata |-> [content |-> index[i].content]] :
        i \in DOMAIN index, sc \in SimilarityScores}

QueryResults(index, limit) ==
    UNION {{q \in [1..n -> IndexMatches(index)] :
               \A i, j \in 1..n : q[i].id = q[j].id => i = j} : n \in 0..limit}

\* results.matches.map(match => ({id, content, similarity}))
MapMatches(matches) ==
    [i \in DOMAIN matches |->
        [id         |-> ParseInt(matches[i].id),
         content    |-> matches[i].metadata.content,
         similarity |-> matches[i].score]]

\* One step of the sort: m goes behind every element it does not precede
\* under (a, b) => b.similarity - a.similarity.
InsertMatch(sorted, m) ==
    LET k == Cardinality({i \in DOMAIN sorted : sorted[i].similarity >= m.similarity})
    IN  SubSeq(sorted, 1, k) \o <<m>> \o SubSeq(sorted, k + 1, Len(sorted))

RECURSIVE SortPrefix(_, _)
SortPrefix(matches, n) ==
    IF n = 0 THEN <<>> ELSE InsertMatch(SortPrefix(matches, n - 1), matches[n])

\* SortBySimilarity with the sort left out.
SortBySimilaritySkipped(matches) == matches

\* matches.sort((a, b) => b.similarity - a.similarity), a stable sort.
SortBySimilarity(matches) == SortPrefix(matches, Len(matches))

\* searchSimilar(query, limit, env): the query's embedding, the index query,
\* the mapping and the sort; any throw is thrown again. A call does not
\* depend on the calls before it, so the model follows one.
SearchSimilar(reply, queryOk, matches) ==
    /\ search.pc = "idle"
    /\ LET embedding == GenerateEmbedding(reply)
       IN  search' = IF embedding.ok /\ queryOk
                     THEN [pc |-> "done", matches |-> matches,
                           ret |-> SortBySimilarity(MapMatches(matches))]
                     ELSE [pc |-> "raised", matches |-> <<>>, ret |-> <<>>]
    /\ UNCHANGED <<feedback, vectorize, kv, indexAll, fullyProcessed, events, lastWrite,
                   lastIndexed, analyzeRet, classify, analytics>>
    /\ UNCHANGED runVars

\* ------------------------------------------------------------------------
\* Specification: feedback is created and one workflow instance at a time
\* analyzes it, with every failure of the store, the inference service, the
\* embedding service, the vector index and the cache.
\* ------------------------------------------------------------------------

Next ==
    \/ \E c \in RunTexts : CreateFeedback(c)
    \/ Trigger(1)
    \/ \E dbOk \in BOOLEAN : Fetch(1, dbOk)
    \/ \E sc \in AIScenarios, dbOk \in BOOLEAN : Analyze(1, sc, dbOk)
    \/ \E e \in EmbeddingReplies, insertOk \in BOOLEAN : Embed(1, e, insertOk)
    \/ \E kvOk \in BOOLEAN : ClearCache(1, kvOk)

Spec == Init /\ [][Next]_vars

\* ------------------------------------------------------------------------
\* Specification: as Spec, with the inference service down (every call to
\* env.AI throws, the embedding call included) and POST /api/analyze, over
\* every text of the model; the vector index and the cache do not fail.
\* ------------------------------------------------------------------------

NextAIDown ==
    \/ \E c \in Texts : CreateFeedback(c)
    \/ Trigger(1)
    \/ \E dbOk \in BOOLEAN : Fetch(1, dbOk)
    \/ \E sc \in AIDown, dbOk \in BOOLEAN : Analyze(1, sc, dbOk)
    \/ Embed(1, EThrow, TRUE)
    \/ ClearCache(1, TRUE)
    \/ \E outcome \in [DOMAIN feedback -> AnalyzeOutcomes({SThrow})] :
          AnalyzeAll(outcome, TRUE)

SpecAIDown == Init /\ [][NextAIDown]_vars

\* ------------------------------------------------------------------------
\* Specification: one indexAllFeedback call over a table of more than one
\* chunk, with every failure of the store, the embedding service and the
\* vector index.
\* ------------------------------------------------------------------------

\* A table of one full chunk and MaxExtraRows rows more, as seeding leaves it.
SeededTable ==
    [id \in 1..(batchSize + MaxExtraRows) |->
        NewRow(IF id % 2 = 1 THEN TextPlain ELSE TextBroken)]

InitIndexAll ==
    /\ feedback = SeededTable
    /\ vectorize = <<>>
    /\ kv = "absent"
    /\ InitRun
    /\ InitHistory
    /\ indexAll = IndexAllIdle

NextIndexAll ==
    \/ \E dbOk \in BOOLEAN : IndexAllStart(dbOk)
    \/ \E e \in {EGood, EThrow, ENotArray} : IndexAllEmbed(e)
    \/ \E insertOk \in BOOLEAN : IndexAllInsert(insertOk)

SpecIndexAll == InitIndexAll /\ [][NextIndexAll]_vars

\* ------------------------------------------------------------------------
\* Specification: both analysis handlers, the workflow and POST /api/analyze,
\* over every text of the model, with sentiment replies that cannot be used
\* and one that can, and a cache delete that may throw.
\* ------------------------------------------------------------------------

\* The scenarios in which the sentiment reply cannot be used.
FailedSentimentScenarios ==
    { Scenario(SThrow,   TThrow,   UThrow),
      Scenario(SNoMatch, TNoMatch, UUnsure),
      Scenario(SBadJson, TBadJson, UMedium) }

\* The replies the workflow's analyze step receives in this specification.
AnalyzeScenarios == FailedSentimentScenarios \cup {Scenario(SHigh, TTwice, UCritical)}

NextAnalyze ==
    \/ \E c \in {TextBroken, TextPraise, TextPlain} : CreateFeedback(c)
    \/ Trigger(1)
    \/ Fetch(1, TRUE)
    \/ \E sc \in AnalyzeScenarios : Analyze(1, sc, TRUE)
    \/ Embed(1, EGood, TRUE)
    \/ \E kvOk \in BOOLEAN : ClearCache(1, kvOk)
    \/ \E reply \in {SThrow, SNoMatch, SBadJson, SHigh}, kvOk \in BOOLEAN :
          AnalyzeAll([id \in DOMAIN feedback |-> [reply |-> reply, dbOk |-> TRUE]], kvOk)

SpecAnalyze == Init /\ [][NextAnalyze]_vars

\* ------------------------------------------------------------------------
\* Specification: a search over an index that holds a vector for each of
\* MaxMatches rows, answered with any matches in any order.
\* ------------------------------------------------------------------------

IndexedTable == [id \in 1..MaxMatches |-> NewRow(IF id % 2 = 1 THEN TextPlain ELSE TextBroken)]

InitSearch ==
    /\ feedback = IndexedTable
    /\ vectorize = [id \in 1..MaxMatches |->
                       [content |-> IndexedTable[id].content, dim |-> EmbeddingDim]]
    /\ kv = "absent"
    /\ InitRun
    /\ InitHistory
    /\ indexAll = IndexAllIdle

NextSearch ==
    \E e \in {EGood, EThrow}, queryOk \in BOOLEAN,
       matches \in QueryResults(vectorize, MaxMatches) :
        SearchSimilar(e, queryOk, matches)

SpecSearch == InitSearch /\ [][NextSearch]_vars

\* ------------------------------------------------------------------------
\* Specification: rows are indexed by workflow runs and by one
\* indexAllFeedback call, and the database is reset and filled again in
\* between, as RESET_INSTRUCTIONS.md describes; the inference service is down.
\* ------------------------------------------------------------------------

NextReindex ==
    \/ \E c \in {TextBroken, TextPlain} : CreateFeedback(c)
    \/ ResetDatabase
    \/ Trigger(1)
    \/ Fetch(1, TRUE)
    \/ \E sc \in AIDown : Analyze(1, sc, TRUE)
    \/ Embed(1, EGood, TRUE)
    \/ ClearCache(1, TRUE)
    \/ IndexAllStart(TRUE)
    \/ IndexAllEmbed(EGood)
    \/ IndexAllInsert(TRUE)

SpecReindex == Init /\ [][NextReindex]_vars

\* ------------------------------------------------------------------------
\* Specification: the keyword rules of both workers, and the urgency step of
\* the workflow, over the contents put together from the phrases.
\* ------------------------------------------------------------------------

\* The replies of the model to the urgency prompt.
UrgencyReplies == {UThrow, UCritical, UHigh, ULow, UMedium, UBoth, UUnsure}

NextKeyword ==
    \/ \E rules \in {1, 2}, chosen \in SUBSET DOMAIN Phrases :
          KeywordAnalyze(rules, chosen)
    \/ \E chosen \in SUBSET DOMAIN Phrases, reply \in UrgencyReplies :
          ClassifyUrgency(chosen, reply)

SpecKeyword == Init /\ [][NextKeyword]_vars

\* ------------------------------------------------------------------------
\* Specification: the fetch step over a table of more rows than the query's
\* LIMIT, any of them analyzed already.
\* ------------------------------------------------------------------------

\* SeededTable with the rows of ids analyzed, as a run that got no usable
\* reply from the inference service leaves them.
AnalyzedTable(ids) ==
    [id \in DOMAIN SeededTable |->
        IF id \in ids
        THEN UpdateFeedback(SeededTable, id, WorkflowSentiment(SThrow).sentiment,
                            WorkflowSentiment(SThrow).score, WorkflowUrgency(UThrow),
                            WorkflowThemes(TThrow))[id]
        ELSE SeededTable[id]]

InitFetch ==
    /\ \E ids \in SUBSET DOMAIN SeededTable : feedback = AnalyzedTable(ids)
    /\ vectorize = <<>>
    /\ kv = "absent"
    /\ InitRun
    /\ InitHistory
    /\ indexAll = IndexAllIdle

NextFetch ==
    \/ Trigger(1)
    \/ \E dbOk \in BOOLEAN : Fetch(1, dbOk)

SpecFetch == InitFetch /\ [][NextFetch]_vars

\* ------------------------------------------------------------------------
\* Specification: two workflow instances at once over the same table, their
\* steps interleaved in any way, with an UPDATE that may throw. The embedding
\* call throws, which leaves the table as the only state the instances share.
\* ------------------------------------------------------------------------

\* The replies of the inference service to the instances: a usable one, and
\* one whose score is a word.
ConcurrentScenarios ==
    { Scenario(SHigh,      TTwice,   UCritical),
      Scenario(SWordScore, TGeneral, UBoth) }

NextConcurrent ==
    \/ \E c \in RunTexts : CreateFeedback(c)
    \/ \E r \in Runs : Trigger(r)
    \/ \E r \in Runs : Fetch(r, TRUE)
    \/ \E r \in Runs, sc \in ConcurrentScenarios, dbOk \in BOOLEAN : Analyze(r, sc, dbOk)
    \/ \E r \in Runs : Embed(r, EThrow, TRUE)
    \/ \E r \in Runs : ClearCache(r, TRUE)

SpecConcurrent == Init /\ [][NextConcurrent]_vars

\* ------------------------------------------------------------------------
\* Specification: every operation that follows an analysis: an embed step
\* that fails, a cache delete that throws, another run, a full re-analysis,
\* indexAllFeedback, a create and a seed.
\* ------------------------------------------------------------------------

NextAfterAnalysis ==
    \/ \E c \in RunTexts : CreateFeedback(c)
    \/ Seed(Len(mockFeedback), TRUE)
    \/ Trigger(1)
    \/ Fetch(1, TRUE)
    \/ \E sc \in ConcurrentScenarios : Analyze(1, sc, TRUE)
    \/ \E e \in {EGood, EThrow} : Embed(1, e, TRUE)
    \/ \E kvOk \in BOOLEAN : ClearCache(1, kvOk)
    \/ \E reply \in {SThrow, SHigh, SWordScore}, kvOk \in BOOLEAN :
          AnalyzeAll([id \in DOMAIN feedback |-> [reply |-> reply, dbOk |-> TRUE]], kvOk)
    \/ IndexAllStart(TRUE)
    \/ IndexAllEmbed(EGood)
    \/ IndexAllInsert(TRUE)

SpecAfterAnalysis == Init /\ [][NextAfterAnalysis]_vars

\* ------------------------------------------------------------------------
\* Specification: one workflow instance with every failure, every call it
\* makes returning or throwing in the end: the Workflows engine runs the
\* next step of an instance that has not returned, so a step that stays
\* enabled is taken.
\* ------------------------------------------------------------------------

\* The replies of the inference service in this specification: none, and a
\* usable one.
LiveScenarios == AIDown \cup {Scenario(SHigh, TTwice, UCritical)}

AnalyzeStep == \E sc \in LiveScenarios, dbOk \in BOOLEAN : Analyze(1, sc, dbOk)
EmbedStep == \E e \in {EGood, EThrow}, insertOk \in BOOLEAN : Embed(1, e, insertOk)
ClearCacheStep == \E kvOk \in BOOLEAN : ClearCache(1, kvOk)

NextLive ==
    \/ \E c \in RunTexts : CreateFeedback(c)
    \/ Trigger(1)
    \/ \E dbOk \in BOOLEAN : Fetch(1, dbOk)
    \/ AnalyzeStep
    \/ EmbedStep
    \/ ClearCacheStep

SpecLive ==
    /\ Init
    /\ [][NextLive]_vars
    /\ WF_vars(AnalyzeStep)
    /\ WF_vars(EmbedStep)
    /\ WF_vars(ClearCacheStep)

\* ------------------------------------------------------------------------
\* Specification: the analytics cache, with every service healthy but the
\* inference service: analytics are read, feedback is created, the database
\* is seeded and workflow runs analyze the rows.
\* ------------------------------------------------------------------------

NextCache ==
    \/ \E c \in RunTexts : CreateFeedback(c)
    \/ Seed(Len(mockFeedback), TRUE)
    \/ GetAnalytics(TRUE)
    \/ Trigger(1)
    \/ Fetch(1, TRUE)
    \/ \E sc \in AIDown, dbOk \in BOOLEAN : Analyze(1, sc, dbOk)
    \/ Embed(1, EGood, TRUE)
    \/ ClearCache(1, TRUE)

SpecCache == Init /\ [][NextCache]_vars

\* ------------------------------------------------------------------------
\* Specification: reads of the analytics that missed the cache overlap a
\* workflow run; the inference service is down, the cache delete and the
\* cache put may throw.
\* ------------------------------------------------------------------------

NextOverlap ==
    \/ \E c \in RunTexts : CreateFeedback(c)
    \/ AnalyticsCompute
    \/ \E kvOk \in BOOLEAN : AnalyticsPut(kvOk)
    \/ Trigger(1)
    \/ Fetch(1, TRUE)
    \/ \E sc \in AIDown, dbOk \in BOOLEAN : Analyze(1, sc, dbOk)
    \/ Embed(1, EGood, TRUE)
    \/ \E kvOk \in BOOLEAN : ClearCache(1, kvOk)

SpecOverlap == Init /\ [][NextOverlap]_vars

\* The same requests with the analytics read as one step.
NextNoOverlap ==
    \/ \E c \in RunTexts : CreateFeedback(c)
    \/ \E kvOk \in BOOLEAN : GetAnalytics(kvOk)
    \/ Trigger(1)
    \/ Fetch(1, TRUE)
    \/ \E sc \in AIDown, dbOk \in BOOLEAN : Analyze(1, sc, dbOk)
    \/ Embed(1, EGood, TRUE)
    \/ \E kvOk \in BOOLEAN : ClearCache(1, kvOk)

SpecNoOverlap == Init /\ [][NextNoOverlap]_vars

\* ------------------------------------------------------------------------
\* Specification: the workflow is triggered again and again over a table of
\* one full fetch window and MaxExtraRows rows more, to which nothing is
\* added. The UPDATE of some rows throws on every run: the rows of the n
\* lowest ids, which the model marks by their content. The inference service
\* is down. Every step of a run that is started is taken in the end, and the
\* workflow is triggered again whenever no run is under way.
\* ------------------------------------------------------------------------

RejectedTable(n) ==
    [id \in 1..(FetchLimit + MaxExtraRows) |->
        NewRow(IF id <= n THEN TextBroken ELSE TextPlain)]

\* The UPDATE of this item throws on every run.
Rejected(item) == item.content = TextBroken

InitRetrigger ==
    /\ \E n \in 0..FetchLimit : feedback = RejectedTable(n)
    /\ vectorize = <<>>
    /\ kv = "absent"
    /\ InitRun
    /\ InitHistory
    /\ indexAll = IndexAllIdle

AnalyzeOrReject ==
    /\ pc[1] = "analyze"
    /\ \E sc \in AIDown :
           Analyze(1, sc, ~Rejected(feedbackItems[1][Len(analysisResults[1]) + 1]))

NextRetrigger ==
    \/ Trigger(1)
    \/ Fetch(1, TRUE)
    \/ AnalyzeOrReject
    \/ Embed(1, EThrow, TRUE)
    \/ ClearCache(1, TRUE)

SpecRetrigger ==
    /\ InitRetrigger
    /\ [][NextRetrigger]_vars
    /\ WF_vars(Trigger(1))
    /\ WF_vars(Fetch(1, TRUE))
    /\ WF_vars(AnalyzeOrReject)
    /\ WF_vars(Embed(1, EThrow, TRUE))
    /\ WF_vars(ClearCache(1, TRUE))

\* ------------------------------------------------------------------------
\* Properties
\* ------------------------------------------------------------------------

UrgencyValues == {Str("low"), Str("medium"), Str("high"), Str("critical")}

FetchedIds(r) == {feedbackItems[r][i].id : i \in DOMAIN feedbackItems[r]}

Unprocessed == {id \in DOMAIN feedback : feedback[id].processed = 0}

ScoreInRange(v) == v.t = "number" /\ -1000 <= v.n /\ v.n <= 1000

NoDuplicates(arr) == \A i, j \in DOMAIN arr : arr[i] = arr[j] => i = j

\* C1: a run that fetched at least one item returns processed = the items
\* fetched, successful = the items whose UPDATE committed in the run, embedded =
\* the items whose index insert committed in the run, failed = processed -
\* successful, so embedded <= successful <= processed.
C1_RunCounts ==
    \A r \in Runs :
        /\ pc[r] = "done" /\ Len(feedbackItems[r]) > 0 => ret[r].kind = "completed"
        /\ ret[r].kind = "completed" =>
              /\ ret[r].processed = Len(feedbackItems[r])
              /\ ret[r].successful = Cardinality(committed[r])
              /\ ret[r].embedded = Cardinality(inserted[r])
              /\ ret[r].failed = ret[r].processed - ret[r].successful
              /\ ret[r].embedded <= ret[r].successful
              /\ ret[r].successful <= ret[r].processed

\* A run of two items returned: one UPDATE threw, the other item was indexed.
C1_Witness ==
    \E r \in Runs :
        /\ ret[r].kind = "completed"
        /\ ret[r].processed = 2
        /\ ret[r].successful = 1
        /\ ret[r].embedded = 1
        /\ ret[r].failed = 1

\* C2: a run whose fetch comes after a run that persisted every item it
\* fetched and left no row unprocessed, with no row created in between,
\* fetches nothing, returns processed = 0 and issues no inference call.
C2_SecondRunIdle ==
    \A r \in Runs :
        fetchedAfterFull[r] =>
            /\ feedbackItems[r] = <<>>
            /\ aiCalls[r] = 0
            /\ analysisResults[r] = <<>>
            /\ pc[r] = "done" => ret[r] = EmptyResult

\* A run has returned the early exit after a run that processed two rows.
C2_Witness ==
    \E r \in Runs :
        /\ fetchedAfterFull[r]
        /\ pc[r] = "done"
        /\ ret[r].kind = "empty"
        /\ Len(feedback) = 2
        /\ Unprocessed = {}

\* C3: when a run persisted all N items it fetched and the embed step failed
\* for exactly one of them, it returns embedded = N - 1, the index holds no
\* vector of that id, and the row keeps its classification and processed = 1.
C3_EmbedFailureIsolated ==
    \A r \in Runs :
        ( /\ pc[r] = "done"
          /\ ret[r].kind = "completed"
          /\ committed[r] = FetchedIds(r)
          /\ Cardinality(embedTried[r] \ inserted[r]) = 1 )
        => /\ ret[r].embedded = Len(feedbackItems[r]) - 1
           /\ \A id \in embedTried[r] \ inserted[r] :
                 /\ id \notin DOMAIN vectorize
                 /\ feedback[id].processed = 1
                 /\ feedback[id].sentiment \in SentimentValues
                 /\ feedback[id].urgency \in UrgencyValues
                 /\ feedback[id].themes.t = "text"
           /\ \A id \in inserted[r] : id \in DOMAIN vectorize

\* A run of two persisted items returned with the embed step of the first
\* failed and the second item in the index.
C3_Witness ==
    \E r \in Runs :
        /\ pc[r] = "done"
        /\ committed[r] = {1, 2}
        /\ embedTried[r] \ inserted[r] = {1}
        /\ 2 \in DOMAIN vectorize
        /\ ret[r].embedded = 1

\* The ids chunk j of the indexAllFeedback call added to the index, and what
\* the chunk added to the indexed counter.
ChunkAdded(j) == indexAll.log[j].after \ indexAll.log[j].before

ChunkIndexed(j) ==
    indexAll.log[j].indexed - (IF j = 1 THEN 0 ELSE indexAll.log[j - 1].indexed)

\* C4 as claimed: a chunk with a failed embedding call has none of its items
\* inserted and adds 0 to indexed; every other chunk is inserted and counted.
C4_ChunkAllOrNothing ==
    \A j \in DOMAIN indexAll.log :
        LET chunk == indexAll.log[j]
        IN  /\ chunk.embedFailed # {} =>
                  ChunkAdded(j) = {} /\ ChunkIndexed(j) = 0
            /\ chunk.embedFailed = {} /\ chunk.insertOk =>
                  ChunkAdded(j) = chunk.ids /\ ChunkIndexed(j) = Cardinality(chunk.ids)

\* C4 as amended: a failed embedding call leaves out that item alone; a chunk
\* is all-or-nothing in its insert call only: the items whose embedding
\* succeeded are all inserted when the insert succeeds and none is when it
\* throws, the chunk adds to indexed the number it inserted, and this holds of
\* every chunk whatever happened to the others.
C4_ChunkInsertAllOrNothing ==
    /\ \A j \in DOMAIN indexAll.log :
          LET chunk == indexAll.log[j]
          IN  /\ ChunkAdded(j) = IF chunk.insertOk THEN chunk.ids \ chunk.embedFailed
                                 ELSE {}
              /\ ChunkIndexed(j) = Cardinality(ChunkAdded(j))
    /\ indexAll.ret.kind = "completed" =>
          indexAll.ret.indexed = Cardinality(DOMAIN vectorize)

\* The call returned after two chunks: the first lost one item to a failed
\* embedding and inserted the rest, the insert of the second threw.
C4_Witness ==
    /\ indexAll.pc = "done"
    /\ Len(indexAll.log) = 2
    /\ Cardinality(indexAll.log[1].embedFailed) = 1
    /\ Cardinality(ChunkAdded(1)) = batchSize - 1
    /\ indexAll.log[2].embedFailed = {}
    /\ ~indexAll.log[2].insertOk
    /\ ChunkAdded(2) = {}

\* The classification columns of a row hold a structurally valid result.
ValidRow(row) ==
    /\ row.sentiment \in SentimentValues
    /\ ScoreInRange(row.sentiment_score)
    /\ row.urgency \in UrgencyValues
    /\ row.themes.t = "text"
    /\ Len(row.themes.arr) \in 1..3

\* C5: with every inference call throwing, no analysis raises, every analysis
\* yields a valid result (sentiment, score in [-1, 1], urgency, 1 to 3
\* themes), and a row whose UPDATE committed has processed = 1.
C5_FallbackTotal ==
    /\ \A id \in DOMAIN feedback : feedback[id].processed = 1 => ValidRow(feedback[id])
    /\ \A r \in Runs :
          /\ pc[r] = "raised" => feedbackItems[r] = <<>>
          /\ \A id \in committed[r] : feedback[id].processed = 1
          /\ \A j \in DOMAIN analysisResults[r] :
                LET result == analysisResults[r][j]
                IN  result.success =>
                       /\ result.sentiment \in SentimentValues
                       /\ ScoreInRange(result.sentimentScore)
                       /\ result.urgency \in UrgencyValues
                       /\ Len(result.themes) \in 1..3

\* The keyword fallback classified a row negative and a row neutral with the
\* general theme, and a workflow run persisted a row.
C5_Witness ==
    /\ \E id \in DOMAIN feedback :
          /\ feedback[id].processed = 1
          /\ feedback[id].sentiment = Str("negative")
          /\ feedback[id].urgency = Str("critical")
    /\ \E id \in DOMAIN feedback :
          /\ feedback[id].processed = 1
          /\ feedback[id].themes = JsonStringify(<<"general">>)
    /\ \E r \in Runs : committed[r] # {} /\ pc[r] = "done"

\* C6 as claimed: the sentiment_score of every analyzed row lies in [-1, 1].
C6_StoredScoreInRange ==
    \A id \in DOMAIN feedback :
        feedback[id].processed = 1 => ScoreInRange(feedback[id].sentiment_score)

\* C7 as claimed: the themes of every analyzed row have 1 to 3 entries, no
\* entry twice, and general only alone.
C7_StoredThemesWellFormed ==
    \A id \in DOMAIN feedback :
        feedback[id].processed = 1 =>
            LET arr == feedback[id].themes.arr
            IN  /\ feedback[id].themes.t = "text"
                /\ Len(arr) \in 1..3
                /\ NoDuplicates(arr)
                /\ (\E i \in DOMAIN arr : arr[i] = "general") => Len(arr) = 1

\* C8 as claimed: a row with processed = 1 has every classification column
\* set, sentiment and urgency among their allowed values.
C8_ProcessedImpliesClassified ==
    \A id \in DOMAIN feedback :
        feedback[id].processed = 1 =>
            /\ feedback[id].sentiment \in SentimentValues
            /\ feedback[id].sentiment_score # Null
            /\ feedback[id].urgency \in UrgencyValues
            /\ feedback[id].themes # ThemesNull

\* C9: a UPDATE that throws fails its own item only: the run does not raise,
\* every fetched item is analyzed in fetch order (three inference calls
\* each), an item is reported failed exactly when its own UPDATE threw, and
\* the returned failed and successful count them.
C9_PersistFailureIsolated ==
    \A r \in Runs :
        /\ Len(feedbackItems[r]) > 0 => pc[r] # "raised"
        /\ \A j \in DOMAIN analysisResults[r] :
              /\ analysisResults[r][j].id = feedbackItems[r][j].id
              /\ analysisResults[r][j].success <=>
                    analysisResults[r][j].id \in committed[r]
        /\ \A id \in committed[r] : feedback[id].processed = 1
        /\ pc[r] \in {"embed", "clear", "done"} /\ Len(feedbackItems[r]) > 0 =>
              /\ Len(analysisResults[r]) = Len(feedbackItems[r])
              /\ aiCalls[r] = 3 * Len(feedbackItems[r])
        /\ ret[r].kind = "completed" =>
              /\ ret[r].failed = Cardinality(FetchedIds(r) \ committed[r])
              /\ ret[r].successful = Cardinality(committed[r])

\* A run returned in which the UPDATE of the first item threw and the second
\* item, analyzed after it, was persisted.
C9_Witness ==
    \E r \in Runs :
        /\ pc[r] = "done"
        /\ Len(analysisResults[r]) = 2
        /\ ~analysisResults[r][1].success
        /\ analysisResults[r][2].success
        /\ feedback[1].processed = 0
        /\ feedback[2].processed = 1
        /\ ret[r].failed = 1

\* C10: the embed step runs for an item only if its UPDATE committed in the
\* same run, and once the embed loop is over it has run for every such item;
\* an item whose UPDATE threw gets no index insert from the run.
C10_EmbedIffPersisted ==
    \A r \in Runs :
        /\ embedTried[r] \subseteq committed[r]
        /\ inserted[r] \subseteq committed[r]
        /\ pc[r] \in {"clear", "done"} /\ Len(feedbackItems[r]) > 0 =>
              embedTried[r] = committed[r]
        /\ \A id \in FetchedIds(r) \ committed[r] : id \notin DOMAIN vectorize

\* The embed loop is over: it ran for the persisted second item and not for
\* the first, whose UPDATE threw.
C10_Witness ==
    \E r \in Runs :
        /\ pc[r] = "clear"
        /\ FetchedIds(r) = {1, 2}
        /\ committed[r] = {2}
        /\ embedTried[r] = {2}
        /\ inserted[r] = {2}

\* The run's cache delete threw.
InvalidateFailed(r) ==
    \E i \in DOMAIN events[r] :
        events[r][i].op = "invalidate" /\ ~events[r][i].ok

\* C11 as claimed: a cache delete that throws is swallowed by both batch
\* analyses: the workflow run returns its result with the counts it would
\* have returned, and POST /api/analyze answers 200 with the number of UPDATEs
\* that committed and the number of rows read.
C11_InvalidateFailureSwallowed ==
    /\ \A r \in Runs :
          InvalidateFailed(r) =>
              /\ pc[r] = "done"
              /\ ret[r] = RunResult(feedbackItems[r], analysisResults[r],
                                    embeddingResults[r])
              /\ ret[r].successful = Cardinality(committed[r])
    /\ analyzeRet.status # 0 =>
          /\ analyzeRet.status = 200
          /\ analyzeRet.analyzed = analyzeRet.updates
          /\ analyzeRet.total = analyzeRet.rows

\* C12: a run whose fetch finds no unprocessed row returns processed = 0 at
\* once: its only call is the fetch, so it makes no inference call, no UPDATE,
\* no embedding call, no index insert and no cache delete.
C12_EmptyFetchSkipsAll ==
    \A r \in Runs :
        /\ ret[r].kind = "empty" =>
              /\ pc[r] = "done"
              /\ ret[r].processed = 0
              /\ events[r] = <<Event("fetch", 0, TRUE, 0)>>
              /\ aiCalls[r] = 0
              /\ committed[r] = {}
              /\ embedTried[r] = {}
              /\ inserted[r] = {}
              /\ analysisResults[r] = <<>>
              /\ embeddingResults[r] = <<>>
        /\ pc[r] \in {"clear", "done"} /\ feedbackItems[r] = <<>> =>
              ret[r].kind = "empty"

\* A run found the table's only row processed and returned at once.
C12_Witness ==
    \E r \in Runs :
        /\ ret[r].kind = "empty"
        /\ pc[r] = "done"
        /\ Len(feedback) = 1
        /\ feedback[1].processed = 1
        /\ events[r] = <<Event("fetch", 0, TRUE, 0)>>

\* How often x occurs in seq.
Count(seq, x) == Cardinality({i \in DOMAIN seq : seq[i] = x})

\* C13: searchSimilar returns exactly the backend's matches, each as often as
\* the backend returned it, in non-increasing order of similarity, whatever
\* order the backend returned them in.
C13_SearchSorted ==
    search.pc = "done" =>
        LET expected == MapMatches(search.matches)
        IN  /\ Len(search.ret) = Len(expected)
            /\ \A i \in DOMAIN expected :
                  Count(search.ret, expected[i]) = Count(expected, expected[i])
            /\ \A i \in DOMAIN search.ret :
                  /\ search.ret[i].id.t = "number"
                  /\ search.ret[i].id.n \in DOMAIN vectorize
                  /\ search.ret[i].content = vectorize[search.ret[i].id.n].content
            /\ \A i, j \in DOMAIN search.ret :
                  i < j => search.ret[i].similarity >= search.ret[j].similarity

\* The backend returned three matches in increasing order of score and the
\* search returned them in decreasing order.
C13_Witness ==
    /\ search.pc = "done"
    /\ Len(search.matches) = 3
    /\ search.matches[1].score < search.matches[2].score
    /\ search.matches[2].score < search.matches[3].score
    /\ search.ret[1].similarity > search.ret[2].similarity
    /\ search.ret[2].similarity > search.ret[3].similarity
    /\ search.ret[1].id = ParseInt(search.matches[3].id)

\* C14 as claimed: generateEmbedding returns an array only when it has
\* the 768 entries of the embedding model, and raises on every other reply, so
\* that no vector of another length reaches the index.
C14_EmbeddingLengthChecked ==
    /\ \A r \in Runs : \A i \in DOMAIN events[r] :
          events[r][i].op = "embed" /\ events[r][i].dim # 0 =>
              events[r][i].dim = EmbeddingDim
    /\ \A id \in DOMAIN vectorize : vectorize[id].dim = EmbeddingDim

\* C15 as claimed: indexing is last-write-wins per id: the index holds, for
\* every id an indexing call reported success for, the one record the latest
\* such call built, with its vector and its content snapshot.
C15_LastWriteWins ==
    \A id \in DOMAIN lastIndexed :
        /\ id \in DOMAIN vectorize
        /\ vectorize[id] = lastIndexed[id]

\* C16 as claimed: right after a step that adds rows to the table (a create
\* or a full reseed) and right after a run that fetched rows returns, the
\* analytics cache key is absent, so that the next read recomputes.
C16_CacheAbsentAfterWrite ==
    [][ ( \/ Len(feedback') > Len(feedback)
          \/ \E r \in Runs : pc[r] = "clear" /\ pc'[r] = "done" )
        => kv' = "absent" ]_vars

\* The positions of run r's steps of one kind, and the ids they were for.
StepsOf(r, op) == {i \in DOMAIN events[r] : events[r][i].op = op}

StepIds(r, op) == SelectSeq(events[r], LAMBDA e : e.op = op)

\* C17 as claimed: the steps of a run are interleaved per item, so that when
\* the Analyze of an item starts, every item persisted before it has had its
\* Embed already.
C17_EmbedBeforeNextAnalyze ==
    \A r \in Runs : \A j \in StepsOf(r, "analyze") : \A i \in StepsOf(r, "persist") :
        (i < j /\ events[r][i].ok)
            => \E k \in StepsOf(r, "embed") :
                   i < k /\ k < j /\ events[r][k].id = events[r][i].id

\* C17: a run is Fetch, then Analyze and Persist of every fetched item in
\* fetch order, then Embed of every persisted item in that order, then
\* Invalidate, then Done: the Embed of an item comes after its own Persist
\* and after the Analyze of every fetched item, and Invalidate comes after
\* the last Embed and ends the run.
C17_PhasedOrder ==
    \A r \in Runs :
        LET ev       == events[r]
            analyzed == StepIds(r, "analyze")
            embedded == StepIds(r, "embed")
            persists == SelectSeq(ev, LAMBDA e : e.op = "persist" /\ e.ok)
        IN  /\ \A i \in DOMAIN ev : (ev[i].op = "fetch") <=> (i = 1)
            /\ Len(analyzed) <= Len(feedbackItems[r])
            /\ \A n \in DOMAIN analyzed : analyzed[n].id = feedbackItems[r][n].id
            /\ \A i \in StepsOf(r, "persist") :
                   /\ i > 1
                   /\ ev[i - 1].op = "analyze"
                   /\ ev[i - 1].id = ev[i].id
            /\ \A i \in StepsOf(r, "analyze") :
                   /\ i < Len(ev)
                   /\ ev[i + 1].op = "persist"
            /\ \A k \in StepsOf(r, "embed") :
                   /\ \A j \in StepsOf(r, "analyze") : j < k
                   /\ Len(analyzed) = Len(feedbackItems[r])
                   /\ \E i \in StepsOf(r, "persist") :
                          i < k /\ ev[i].ok /\ ev[i].id = ev[k].id
            /\ Len(embedded) <= Len(persists)
            /\ \A n \in DOMAIN embedded : embedded[n].id = persists[n].id
            /\ \A k \in StepsOf(r, "invalidate") :
                   /\ k = Len(ev)
                   /\ Len(embedded) = Len(persists)
                   /\ Len(analyzed) = Len(feedbackItems[r])
            /\ (pc[r] = "done" /\ Len(feedbackItems[r]) > 0)
                   => ev[Len(ev)].op = "invalidate"

\* A run of two items went through both analyze steps, both embed steps and
\* the clear-cache step, and returned.
C17_Witness ==
    \E r \in Runs :
        /\ pc[r] = "done"
        /\ Len(feedbackItems[r]) = 2
        /\ Len(StepIds(r, "embed")) = 2
        /\ events[r][Len(events[r])].op = "invalidate"

\* The run's last step was a fetch that returned.
JustFetched(r) ==
    /\ Len(events[r]) > 0
    /\ events[r][Len(events[r])].op = "fetch"
    /\ events[r][Len(events[r])].ok

\* C18 as claimed: what the fetch step returned is at most FetchLimit rows,
\* each with processed = 0 in the table it was read from, in ascending id
\* order, and no unprocessed row left out has a lower id than a returned one.
C18_FetchLowestAscending ==
    \A r \in Runs :
        JustFetched(r) =>
            LET items == feedbackItems[r]
                ids   == {items[i].id : i \in DOMAIN items}
            IN  /\ Len(items) <= FetchLimit
                /\ \A i \in DOMAIN items : feedback[items[i].id].processed = 0
                /\ \A i, j \in DOMAIN items : i < j => items[i].id < items[j].id
                /\ \A id \in DOMAIN feedback \ ids :
                       feedback[id].processed = 0 => \A i \in ids : i < id

\* The classification columns and the processed flag of the row are those
\* of one committed UPDATE, the last one, or those of the INSERT.
SingleWrite(id) ==
    IF id \in DOMAIN lastWrite
    THEN /\ feedback[id].processed = 1
         /\ feedback[id].sentiment = lastWrite[id].sentiment
         /\ feedback[id].sentiment_score = lastWrite[id].sentiment_score
         /\ feedback[id].urgency = lastWrite[id].urgency
         /\ feedback[id].themes = lastWrite[id].themes
    ELSE feedback[id] = NewRow(feedback[id].content)

\* C19 as claimed: with two runs interleaved, every row is as one single
\* write left it, and when both runs have returned every row one of them
\* fetched and persisted has processed = 1 and a valid classification.
C19_InterleavedRunsKeepState ==
    /\ \A id \in DOMAIN feedback : SingleWrite(id)
    /\ (\A r \in Runs : pc[r] = "done")
           => \A r \in Runs : \A id \in committed[r] :
                  /\ feedback[id].processed = 1
                  /\ ValidRow(feedback[id])

\* What the keyword fallback computes from each text of the model.
KeywordFallback == [text \in Texts |-> KeywordSentiment(ToLowerCase(text))]

\* The sentiment and score the last committed UPDATE of the row wrote, which
\* the row holds, are those of s.
Persisted(id, s) ==
    /\ lastWrite[id].sentiment = D1Bind(s.sentiment)
    /\ lastWrite[id].sentiment_score = D1Bind(s.score)
    /\ feedback[id].sentiment = lastWrite[id].sentiment
    /\ feedback[id].sentiment_score = lastWrite[id].sentiment_score

C21_KeywordSentimentFormula ==
    (classify.pc = "done" /\ ~classify.hasNegation) =>
        LET p == classify.positiveCount
            n == classify.negativeCount
            up == 400 + 150 * p
            down == -400 - 150 * n
        IN  /\ p > n => /\ classify.sentiment = Str("positive")
                        /\ classify.score = Num(IF up < 1000 THEN up ELSE 1000)
            /\ n > p => /\ classify.sentiment = Str("negative")
                        /\ classify.score = Num(IF down > -1000 THEN down ELSE -1000)
            /\ p = n => /\ classify.sentiment = Str("neutral")
                        /\ classify.score = Num(0)
            /\ classify.score.t = "number"
            /\ classify.sentiment = Str("positive") => classify.score.n > 0
            /\ classify.sentiment = Str("negative") => classify.score.n < 0
            /\ classify.sentiment = Str("neutral") => classify.score.n = 0

\* A text without negation word with five positive matches and two negative
\* ones was scored positive at the cap, 1.
C21_Witness ==
    /\ classify.pc = "done"
    /\ ~classify.hasNegation
    /\ classify.positiveCount = 5
    /\ classify.negativeCount = 2
    /\ classify.sentiment = Str("positive")
    /\ classify.score = Num(1000)

\* The text holds a negation word and more positive than negative matches.
NegatedPositive ==
    /\ classify.pc = "done"
    /\ classify.hasNegation
    /\ classify.positiveCount > classify.negativeCount

\* The result a negated positive text gets with the dampening: for at most
\* two positive matches the score is halved, and the result is neutral with
\* 0 when the halved score is below 0.3; three matches and more are scored
\* as without negation.
DampenedResult ==
    LET p == classify.positiveCount
        up == 400 + 150 * p
        full == IF up < 1000 THEN up ELSE 1000
    IN  /\ p = 1 => classify.sentiment = Str("neutral") /\ classify.score = Num(0)
        /\ p = 2 => classify.sentiment = Str("positive") /\ classify.score = Num(350)
        /\ p >= 3 => classify.sentiment = Str("positive") /\ classify.score = Num(full)

\* C22 as claimed: the keyword rules dampen a negated positive text,
\* whichever of the two rule sets is applied.
C22_NegationDampening == NegatedPositive => DampenedResult

\* C22: the rule set of the keyword-only worker dampens a negated positive
\* text: one positive match yields neutral with 0, two yield positive with
\* 0.35, three and more are not dampened. The rule set the other worker falls
\* back to when its inference call fails has no negation handling: the text
\* is positive with min(0.4 + 0.15 p, 1) whatever p.
C22_DampeningByRuleSet ==
    NegatedPositive =>
        IF classify.rules = 2
        THEN DampenedResult
        ELSE LET up == 400 + 150 * classify.positiveCount
             IN  /\ classify.sentiment = Str("positive")
                 /\ classify.score = Num(IF up < 1000 THEN up ELSE 1000)

\* The keyword-only worker's rules met a text with a negation word, one
\* positive match and no negative one, and made it neutral with score 0.
C22_Witness ==
    /\ NegatedPositive
    /\ classify.rules = 2
    /\ classify.positiveCount = 1
    /\ classify.negativeCount = 0
    /\ classify.sentiment = Str("neutral")
    /\ classify.score = Num(0)

\* The urgency is the first tier, from critical down, that the text has a
\* keyword of, and medium when it has none.
TextLadder ==
    classify.urgency = IF classify.critical THEN Str("critical")
                       ELSE IF classify.high THEN Str("high")
                       ELSE IF classify.low THEN Str("low")
                       ELSE Str("medium")

KeywordRules ==
    [text \in Texts |->
        [urgency |-> KeywordUrgency(ToLowerCase(text)),
         themes  |-> KeywordThemes(ToLowerCase(text))]]

C25_NoRollback ==
    [][ \A id \in DOMAIN feedback :
            feedback[id].processed = 1 =>
                /\ id \in DOMAIN feedback'
                /\ feedback'[id].processed = 1
                /\ feedback[id].sentiment # Null => feedback'[id].sentiment # Null
                /\ feedback[id].sentiment_score # Null
                       => feedback'[id].sentiment_score # Null
                /\ feedback[id].urgency # Null => feedback'[id].urgency # Null
                /\ feedback[id].themes # ThemesNull => feedback'[id].themes # ThemesNull
      ]_vars

\* The run raised at its fetch, before any other call.
RaisedAtFetch(r) ==
    /\ Len(events[r]) = 1
    /\ events[r][1].op = "fetch"
    /\ ~events[r][1].ok
    /\ committed[r] = {}
    /\ inserted[r] = {}
    /\ embedTried[r] = {}

\* C26: with every call returning or throwing in the end, a run whose fetch
\* returned reaches the end and returns a result, whatever inference call,
\* UPDATE, embed step or cache delete failed on the way; a run raises only
\* at its fetch, and then it has made no UPDATE, no insert and no cache
\* delete.
C26_RunTerminates ==
    /\ [](\A r \in Runs : pc[r] = "raised" => RaisedAtFetch(r))
    /\ \A r \in Runs : JustFetched(r) ~> (pc[r] = "done" /\ ret[r].kind # "none")

\* A run of two items returned although an UPDATE, an embed step and the
\* cache delete had failed.
C26_Witness ==
    \E r \in Runs :
        /\ pc[r] = "done"
        /\ Len(feedbackItems[r]) = 2
        /\ ret[r].kind # "none"
        /\ \E i \in StepsOf(r, "persist") : ~events[r][i].ok
        /\ \E i \in StepsOf(r, "embed") : ~events[r][i].ok
        /\ \E i \in StepsOf(r, "invalidate") : ~events[r][i].ok

\* The columns of a row that no UPDATE of the pipeline names.
Kept(row) ==
    [source |-> row.source, content |-> row.content, author |-> row.author,
     created_at |-> row.created_at]

\* The step was the analyze step of run r, and id the row of its UPDATE.
Persists(r, id) ==
    /\ Len(events'[r]) = Len(events[r]) + 2
    /\ events'[r][Len(events'[r])].op = "persist"
    /\ events'[r][Len(events'[r])].id = id

RECURSIVE Inserted(_)
Inserted(j) == IF j = 0 THEN 0 ELSE Cardinality(ChunkAdded(j)) + Inserted(j - 1)

\* What chunk j added to the failed counter.
ChunkFailed(j) ==
    indexAll.log[j].failed - (IF j = 1 THEN 0 ELSE indexAll.log[j - 1].failed)

\* C28 as claimed: of an indexAllFeedback call that returned, indexed + failed
\* is the number of rows read and indexed is the number of records the call
\* added to the index; every chunk counts as indexed what it added and as
\* failed the rest of its items, whatever happened to the other chunks.
C28_CountsMatchIndex ==
    /\ \A j \in DOMAIN indexAll.log :
          /\ ChunkIndexed(j) = Cardinality(ChunkAdded(j))
          /\ ChunkFailed(j) = Cardinality(indexAll.log[j].ids) - ChunkIndexed(j)
    /\ indexAll.ret.kind = "completed" =>
          /\ indexAll.ret.indexed + indexAll.ret.failed = indexAll.ret.total
          /\ indexAll.ret.total = Len(indexAll.allFeedback)
          /\ indexAll.ret.indexed = Inserted(Len(indexAll.log))

\* Run r returned and its clear-cache step deleted the cache key.
Invalidated(r) ==
    /\ pc[r] = "done"
    /\ Len(events[r]) > 0
    /\ events[r][Len(events[r])].op = "invalidate"
    /\ events[r][Len(events[r])].ok

\* C29 as claimed: once a run has deleted the cache key, the key never holds
\* analytics computed before the run's UPDATEs: a value under the key counts
\* every row by the sentiment the table holds for it.
C29_NoStaleSnapshotAfterInvalidate ==
    \A r \in Runs :
        Invalidated(r) /\ kv = "cached" =>
            analytics.cached.sentimentBreakdown =
                ComputeAnalytics(feedback).sentimentBreakdown

\* The rows of the table of the re-trigger specification whose UPDATE throws
\* on every run.
RejectedRows == {id \in DOMAIN feedback : Rejected(feedback[id])}

\* C30 as claimed: under repeated triggering with no row added, every row
\* whose UPDATE can succeed is processed in the end, whichever rows fail on
\* every run.
C30_ProgressUnderReinvocation ==
    \A id \in 1..(FetchLimit + MaxExtraRows) :
        <>(id \in DOMAIN feedback /\ ~Rejected(feedback[id]) => feedback[id].processed = 1)

\* The same of the tables where fewer rows than the fetch window holds fail
\* on every run.
ProgressBelowWindow ==
    Cardinality(RejectedRows) < FetchLimit => C30_ProgressUnderReinvocation


====
